---- MODULE Spec2Model ----
(***************************************************************************)
(* Model of the code-graph ingestion engine (crates/cg-core): the graph    *)
(* store (db.rs), node identity (model.rs), the per-file parser output     *)
(* (parser.rs), the VCS probe (git.rs), file discovery (fs.rs) and the     *)
(* ingestion coordinator (ingest.rs).                                      *)
(*                                                                         *)
(* Environment assumptions of the model:                                   *)
(*  - the working tree is always the tree of HEAD (every change to the     *)
(*    project is committed at once when the project is a repository);      *)
(*  - the project tree changes only between ingest runs (SpecRace lifts    *)
(*    this for the steps of a run outside its parse phase);                *)
(*  - blake3 is collision free: an id is modelled by the bytes hashed;     *)
(*  - a store or VCS call may fail for reasons outside the program, a run  *)
(*    may be killed between two steps, and last_commit may be overwritten  *)
(*    between two runs; at most MaxFaults such events happen in one        *)
(*    behaviour.                                                           *)
(***************************************************************************)
EXTENDS Integers, Sequences, FiniteSets, Bags, TLC

(***************************************************************************)
(* Bounds of the model.                                                    *)
(***************************************************************************)
MaxRuns == 3
MaxCommits == 2
MaxFaults == 1
MaxCallsPerStep == 9
MaxLen == 4
MaxThreads == 2
MaxChanges == 2
MaxDecls == 2
MaxLine == 3
MaxClauses == 2

(***************************************************************************)
(* Paths.  A path is a record of stem and extension under the project      *)
(* root; display() is the string stored in the graph.                      *)
(***************************************************************************)
Root == "/r"

PathA == [stem |-> "a", ext |-> "ts"]
PathB == [stem |-> "b", ext |-> "ts"]
PathJ == [stem |-> "a", ext |-> "js"]
AllPaths == {PathA, PathB, PathJ}

display(p) == Root \o "/" \o p.stem \o "." \o p.ext

\* fs.rs: the extensions find_typescript_files selects
DiscoverExts == {"ts", "tsx"}
\* ingest.rs: the extensions the incremental selection keeps
ts_extensions == {"ts", "tsx", "d.ts"}

(***************************************************************************)
(* File contents.  A content is what the tree-sitter queries of parser.rs  *)
(* see in it: declarations (in document order), call sites, import         *)
(* specifiers and heritage clauses; readable = FALSE is a file that        *)
(* read_to_string rejects (not valid UTF-8).                               *)
(***************************************************************************)
Decl(kind, name, sl, el, body) ==
    [kind |-> kind, name |-> name, sl |-> sl, el |-> el, body |-> body]

CallSite(line, name, isNew) == [line |-> line, name |-> name, isNew |-> isNew]

ImportSpec(relative, stem) == [relative |-> relative, stem |-> stem]

Content(readable, decls, calls, imports, heritage) ==
    [readable |-> readable, decls |-> decls, calls |-> calls,
     imports |-> imports, heritage |-> heritage]

\* function f() {}
ContentF == Content(TRUE, <<Decl("Function", "f", 0, 0, "function f() {}")>>,
                    <<>>, <<>>, <<>>)
\* f moved one line down, g added below it and calling f
ContentFG == Content(TRUE,
                     <<Decl("Function", "f", 1, 1, "function f() {}"),
                       Decl("Function", "g", 2, 3, "function g() { f(); }")>>,
                     <<CallSite(3, "f", FALSE)>>, <<>>, <<>>)
\* import { f } from './b'; function h() {}
ContentImp == Content(TRUE, <<Decl("Function", "h", 1, 1, "function h() {}")>>,
                      <<>>, <<ImportSpec(TRUE, "b")>>, <<>>)
\* function f() {} function f() {}   (both on line 0)
ContentDup == Content(TRUE,
                      <<Decl("Function", "f", 0, 0, "function f() {}"),
                        Decl("Function", "f", 0, 0, "function f() {}")>>,
                      <<>>, <<>>, <<>>)
\* bytes that are not UTF-8
ContentBad == Content(FALSE, <<>>, <<>>, <<>>, <<>>)

Contents == <<ContentF, ContentFG, ContentImp, ContentDup, ContentBad>>
Absent == 0
ContentIds == 1..Len(Contents)

(***************************************************************************)
(* model.rs: node identity.                                                *)
(***************************************************************************)
NoLine == -1

ByteStr(b) == "#" \o ToString(b)

\* u32::to_le_bytes
to_le_bytes(n) ==
    ByteStr(n % 256) \o ByteStr((n \div 256) % 256)
        \o ByteStr((n \div 65536) % 256) \o ByteStr((n \div 16777216) % 256)

\* Node::generate_id: the bytes fed to the hasher, in order
generate_id(node_type, name, file, start_line, end_line) ==
    node_type \o name \o file
        \o (IF start_line = NoLine THEN "" ELSE to_le_bytes(start_line))
        \o (IF end_line = NoLine THEN "" ELSE to_le_bytes(end_line))

Node_new(node_type, name, file) ==
    [id |-> generate_id(node_type, name, file, NoLine, NoLine),
     node_type |-> node_type, name |-> name, file |-> file, body |-> "",
     start_line |-> NoLine, end_line |-> NoLine, meta |-> {}]

with_body(n, body) == [n EXCEPT !.body = body]

\* a with_lines that keeps the id of the node it is given
with_lines_KeepId(n, sl, el) == [n EXCEPT !.start_line = sl, !.end_line = el]

with_lines(n, sl, el) ==
    [n EXCEPT !.start_line = sl, !.end_line = el,
              !.id = generate_id(n.node_type, n.name, n.file, sl, el)]

\* self.meta.insert(key, value): the map as a set of <<key, value>> pairs
with_meta(n, key, value) ==
    [n EXCEPT !.meta = {kv \in @ : kv[1] # key} \cup {<<key, value>>}]

Edge(from_id, to_id, edge_type) ==
    [from_id |-> from_id, to_id |-> to_id, edge_type |-> edge_type]

EntityTypes == {"Function", "Class", "Interface", "Import"}

(***************************************************************************)
(* Helpers on sequences.                                                   *)
(***************************************************************************)
\* index of the first element satisfying T, 0 when there is none
\* (Iterator::find)
FirstIdx(s, T(_)) ==
    IF \E i \in 1..Len(s) : T(s[i])
    THEN CHOOSE i \in 1..Len(s) : T(s[i]) /\ \A j \in 1..(i - 1) : ~T(s[j])
    ELSE 0

MapSeq(s, F(_)) == [i \in 1..Len(s) |-> F(s[i])]

RECURSIVE Flatten(_)
Flatten(ss) == IF ss = <<>> THEN <<>> ELSE Head(ss) \o Flatten(Tail(ss))

Range(s) == {s[i] : i \in 1..Len(s)}

(***************************************************************************)
(* The project tree: disk maps every path to a content id, or Absent.      *)
(***************************************************************************)
\* a path below the root has a field dir as well
FileName(p) ==
    (IF "dir" \in DOMAIN p THEN p.dir \o "/" ELSE "") \o p.stem \o "." \o p.ext

\* std::fs::canonicalize(root/name) succeeds: name is a file of the tree or
\* a directory that holds one
ExistsOnDisk(disk, name) ==
    \E p \in DOMAIN disk :
        /\ disk[p] # Absent
        /\ FileName(p) = name \/ ("dir" \in DOMAIN p /\ p.dir = name)

(***************************************************************************)
(* parser.rs                                                               *)
(***************************************************************************)
NoTarget == "<none>"

\* suffixes that leave out the specifier itself
extensions_NoBare == <<".ts", ".tsx", "/index.ts", "/index.tsx">>

\* the suffixes resolve_import_path tries, in order
extensions == <<"", ".ts", ".tsx", "/index.ts", "/index.tsx">>

resolve_import_path(disk, spec) ==
    IF ~spec.relative THEN NoTarget
    ELSE LET hit == FirstIdx(extensions,
                             LAMBDA e : ExistsOnDisk(disk, spec.stem \o e))
         IN IF hit = 0 THEN NoTarget
            ELSE Root \o "/" \o spec.stem \o extensions[hit]

DeclNode(path, d) ==
    with_lines(with_body(Node_new(d.kind, d.name, path), d.body), d.sl, d.el)

DeclsOfKind(content, kind) == SelectSeq(content.decls, LAMBDA d : d.kind = kind)

extract_functions(path, content) ==
    MapSeq(DeclsOfKind(content, "Function"), LAMBDA d : DeclNode(path, d))

extract_classes(path, content) ==
    MapSeq(DeclsOfKind(content, "Class"), LAMBDA d : DeclNode(path, d))

extract_interfaces(path, content) ==
    MapSeq(DeclsOfKind(content, "Interface"), LAMBDA d : DeclNode(path, d))

extract_imports(path, content) ==
    IF content.imports = <<>> THEN <<>>
    ELSE <<Node_new("Import", ToString(Len(content.imports)) \o " imports", path)>>

extract_import_edges(path, content, disk) ==
    MapSeq(SelectSeq(content.imports,
                     LAMBDA s : resolve_import_path(disk, s) # NoTarget),
           LAMBDA s : <<path, resolve_import_path(disk, s)>>)

\* index in functions of the first one whose line range contains line
find_containing_function(line, functions) ==
    FirstIdx(functions,
             LAMBDA f : /\ f.start_line # NoLine /\ f.end_line # NoLine
                        /\ line >= f.start_line /\ line <= f.end_line)

FindByName(nodes, name) == FirstIdx(nodes, LAMBDA n : n.name = name)

\* the Calls edges of the call sites with the given isNew whose caller is a
\* local function and whose callee is found by name in targets
CallEdges(content, functions, targets, isNew) ==
    MapSeq(SelectSeq(content.calls,
                     LAMBDA c : /\ c.isNew = isNew
                                /\ find_containing_function(c.line, functions) # 0
                                /\ FindByName(targets, c.name) # 0),
           LAMBDA c : Edge(functions[find_containing_function(c.line, functions)].id,
                           targets[FindByName(targets, c.name)].id, "Calls"))

extract_calls(content, functions) == CallEdges(content, functions, functions, FALSE)

\* a `new` expression resolved among the functions of the file
extract_constructor_calls_Functions(content, functions, classes) ==
    CallEdges(content, functions, functions, TRUE)

extract_constructor_calls(content, functions, classes) ==
    CallEdges(content, functions, classes, TRUE)

\* heritage edges directed from the supertype to the subtype
extract_extends_implements_Reversed(content, classes_and_interfaces) ==
    MapSeq(SelectSeq(content.heritage,
                     LAMBDA h : /\ FindByName(classes_and_interfaces, h.sub) # 0
                                /\ FindByName(classes_and_interfaces, h.sup) # 0),
           LAMBDA h : Edge(classes_and_interfaces[FindByName(classes_and_interfaces, h.sup)].id,
                           classes_and_interfaces[FindByName(classes_and_interfaces, h.sub)].id,
                           "Implements"))

\* heritage clauses are records [sub, sup]
extract_extends_implements(content, classes_and_interfaces) ==
    MapSeq(SelectSeq(content.heritage,
                     LAMBDA h : /\ FindByName(classes_and_interfaces, h.sub) # 0
                                /\ FindByName(classes_and_interfaces, h.sup) # 0),
           LAMBDA h : Edge(classes_and_interfaces[FindByName(classes_and_interfaces, h.sub)].id,
                           classes_and_interfaces[FindByName(classes_and_interfaces, h.sup)].id,
                           "Implements"))

parse_typescript_file(path, content, disk) ==
    LET nodes == extract_functions(path, content) \o extract_classes(path, content)
                    \o extract_interfaces(path, content) \o extract_imports(path, content)
        functions == SelectSeq(nodes, LAMBDA n : n.node_type = "Function")
        classes == SelectSeq(nodes, LAMBDA n : n.node_type = "Class")
        classes_and_interfaces ==
            SelectSeq(nodes, LAMBDA n : n.node_type \in {"Class", "Interface"})
    IN [path |-> path,
        nodes |-> nodes,
        edges |-> extract_calls(content, functions)
                    \o extract_constructor_calls(content, functions, classes)
                    \o extract_extends_implements(content, classes_and_interfaces),
        import_edges |-> extract_import_edges(path, content, disk)]

(***************************************************************************)
(* State.                                                                  *)
(***************************************************************************)
VARIABLES
    isRepo,           \* the project root is a git repository
    disk,             \* the project tree: path -> content id or Absent
    commits,          \* the trees of the revisions, oldest first; HEAD is the last
    tables,           \* store: the tables that exist
    nodes,            \* store: the rows of table Node
    edges,            \* store: the rows of table Edge, a bag
    meta,             \* store: the rows of table Metadata, key -> value or NoValue
    pc,               \* position of the ingest run
    options,          \* IngestOptions of the run: clean, incremental
    files,            \* ingest: the files to process
    to_delete,        \* get_incremental_files: changes.files_to_delete
    parsed_files,     \* ingest: the (file_path, parsed) pairs not yet persisted
    all_import_edges, \* ingest: the flattened import pairs
    had_errors,       \* ingest: had_errors
    stats,            \* ingest: IngestStats
    workers,          \* ingest: the pool of the parallel parse (see NoWorkers)
    runs,             \* number of ingest runs started
    faults,           \* number of store/VCS failures injected so far
    hist,             \* history: what the run found and what it did (see Init)
    batches,          \* history: path -> outcome of its step-7 batch in this run
    built,            \* the Nodes under construction by a caller of model.rs
    text,             \* a string field on its way into a query (see NoText)
    call              \* a call of a function of the library (see NoCall)

world == <<isRepo, disk, commits>>
store == <<tables, nodes, edges, meta>>
aux == <<built, text, call>>
locals == <<options, files, to_delete, parsed_files, all_import_edges, had_errors, stats,
            workers>>
vars == <<isRepo, disk, commits, tables, nodes, edges, meta, pc, options, files,
          to_delete, parsed_files, all_import_edges, had_errors, stats, workers, runs,
          faults, hist, batches, built, text, call>>

NoValue == "<absent>"

\* the revision id of the i-th commit
RevOf(i) == "rev" \o ToString(i)
HeadIdx == Len(commits)
KnownRevs == {RevOf(i) : i \in 1..Len(commits)}
TreeOf(rev) == commits[CHOOSE i \in 1..Len(commits) : RevOf(i) = rev]

(***************************************************************************)
(* Calls that can fail.  A context c carries the store, the coordinator's  *)
(* had_errors and stats, the number of fallible calls made so far in the   *)
(* step and the index failAt of the call that fails for an outside reason  *)
(* (0: none).  Every operation returns the context after the call,         *)
(* with ok = FALSE when the call returned Err; failed is the index of the  *)
(* first call of the step that returned Err (0: none).                     *)
(***************************************************************************)
Ctx(fa) ==
    [tables |-> tables, nodes |-> nodes, edges |-> edges, meta |-> meta,
     had_errors |-> had_errors, stats |-> stats,
     calls |-> 0, failAt |-> fa, ok |-> TRUE, ret |-> NoValue, written |-> {},
     failed |-> 0, log |-> hist.log]

Fails(c) == c.calls + 1 = c.failAt
\* a call to the store or to git: counted, and noted in the log of the run
Tick(c, op, what) ==
    [c EXCEPT !.calls = @ + 1, !.log = Append(@, [op |-> op, what |-> what])]
Err(c) == [c EXCEPT !.ok = FALSE, !.failed = IF @ = 0 THEN c.calls ELSE @]
Ok(c) == [c EXCEPT !.ok = TRUE]

(***************************************************************************)
(* db.rs                                                                   *)
(***************************************************************************)
HasNode(ns, id) == \E m \in ns : m.id = id

\* DETACH DELETE of the nodes with an id in ids
DetachDelete(c, ids) ==
    [c EXCEPT !.nodes = {m \in @ : m.id \notin ids},
              !.edges = LET keep == {e \in DOMAIN @ : e.from_id \notin ids /\ e.to_id \notin ids}
                        IN [e \in keep |-> @[e]]]

\* the characters of the strings handed to the store: backslash, single
\* quote, double quote, newline, carriage return, tab, and two ordinary
\* characters (n is also the second character of the newline escape)
Special == [backslash |-> "\\", single |-> "'", double |-> "\"",
            newline |-> "\n", return |-> "\r", tab |-> "\t"]
Chars == {Special[k] : k \in DOMAIN Special} \cup {"n", "a"}

\* str::replace(from: char, to: &str) on a string given as its characters
RECURSIVE replace(_, _, _)
replace(s, from, to) ==
    IF s = <<>> THEN <<>>
    ELSE (IF Head(s) = from THEN to ELSE <<Head(s)>>) \o replace(Tail(s), from, to)

\* an escape that doubles the backslashes last
escape_kuzu_string_BackslashLast(s) ==
    replace(replace(replace(replace(replace(replace(s,
        Special.single, <<Special.backslash, Special.single>>),
        Special.double, <<Special.backslash, Special.double>>),
        Special.newline, <<Special.backslash, "n">>),
        Special.return, <<Special.backslash, "r">>),
        Special.tab, <<Special.backslash, "t">>),
        Special.backslash, <<Special.backslash, Special.backslash>>)

escape_kuzu_string(s) ==
    replace(replace(replace(replace(replace(replace(s,
        Special.backslash, <<Special.backslash, Special.backslash>>),
        Special.single, <<Special.backslash, Special.single>>),
        Special.double, <<Special.backslash, Special.double>>),
        Special.newline, <<Special.backslash, "n">>),
        Special.return, <<Special.backslash, "r">>),
        Special.tab, <<Special.backslash, "t">>)

\* every quote and backslash of the text is part of a backslash escape the
\* engine knows, and the text has no raw newline, carriage return or tab
RECURSIVE IsLiteral(_)
IsLiteral(e) ==
    IF e = <<>> THEN TRUE
    ELSE IF Head(e) = Special.backslash
    THEN /\ Len(e) >= 2
         /\ e[2] \in {Special.backslash, Special.single, Special.double, "n", "r", "t"}
         /\ IsLiteral(SubSeq(e, 3, Len(e)))
    ELSE /\ Head(e) \notin {Special.single, Special.double, Special.newline,
                           Special.return, Special.tab}
         /\ IsLiteral(Tail(e))

\* the engine's reading of the text between the quotes of a string literal:
\* a backslash and the character after it stand for one character
RECURSIVE Decode(_)
Decode(e) ==
    IF e = <<>> THEN <<>>
    ELSE IF Head(e) = Special.backslash /\ Len(e) >= 2
    THEN LET ch == IF e[2] = "n" THEN Special.newline
                   ELSE IF e[2] = "r" THEN Special.return
                   ELSE IF e[2] = "t" THEN Special.tab
                   ELSE e[2]
         IN <<ch>> \o Decode(SubSeq(e, 3, Len(e)))
    ELSE <<Head(e)>> \o Decode(Tail(e))

\* CREATE (n:Node {...}): the id is the primary key
insert_node(c, n) ==
    LET d == Tick(c, "insert_node", n.node_type)
    IN IF Fails(c) \/ "Node" \notin c.tables \/ HasNode(c.nodes, n.id)
       THEN Err(d)
       ELSE Ok([d EXCEPT !.nodes = @ \cup {[n EXCEPT !.meta = {}]}])

\* a CREATE of the edge that does not match its endpoints first
insert_edge_Unmatched(c, e) ==
    LET d == Tick(c, "insert_edge", e.edge_type)
    IN IF Fails(c) \/ "Edge" \notin c.tables
       THEN Err(d)
       ELSE Ok([d EXCEPT !.edges = @ (+) SetToBag({e})])

\* MATCH (a), (b) CREATE (a)-[e]->(b): nothing is created when an endpoint
\* is missing
insert_edge(c, e) ==
    LET d == Tick(c, "insert_edge", e.edge_type)
    IN IF Fails(c) \/ "Edge" \notin c.tables
       THEN Err(d)
       ELSE IF HasNode(c.nodes, e.from_id) /\ HasNode(c.nodes, e.to_id)
            THEN Ok([d EXCEPT !.edges = @ (+) SetToBag({e})])
            ELSE Ok(d)

\* a clear that deletes the nodes and leaves their edges
clear_NodesOnly(c) ==
    LET d == Tick(c, "clear", "")
    IN IF Fails(c) \/ "Node" \notin c.tables
       THEN Err(d)
       ELSE Ok([d EXCEPT !.nodes = {}])

\* MATCH (n:Node) DETACH DELETE n
\* a clear that empties the Metadata table with the others
clear_AllTables(c) ==
    LET d == Tick(c, "clear", "")
    IN IF Fails(c) \/ "Node" \notin c.tables
       THEN Err(d)
       ELSE Ok([d EXCEPT !.nodes = {}, !.edges = EmptyBag,
                         !.meta = [k \in DOMAIN c.meta |-> NoValue]])

clear(c) ==
    LET d == Tick(c, "clear", "")
    IN IF Fails(c) \/ "Node" \notin c.tables
       THEN Err(d)
       ELSE Ok([d EXCEPT !.nodes = {}, !.edges = EmptyBag])

\* the targets of the Contains edges leaving the node file_id
Contained(c, file_id) ==
    {e.to_id : e \in {x \in DOMAIN c.edges :
                        x.from_id = file_id /\ x.edge_type = "Contains"}}

\* a delete that takes every node of the table with it
delete_file_and_symbols_All(c, file_id) ==
    LET d1 == Tick(c, "delete", "symbols")
    IN IF Fails(c) \/ "Edge" \notin c.tables
       THEN Err(d1)
       ELSE LET s1 == DetachDelete(d1, Contained(c, file_id))
                d2 == Tick(s1, "delete", "node")
            IN IF Fails(s1)
               THEN Err(d2)
               ELSE Ok(DetachDelete(d2, {m.id : m \in d2.nodes}))

\* Delete a file node and all its contained symbols
delete_file_and_symbols(c, file_id) ==
    LET d1 == Tick(c, "delete", "symbols")
    IN IF Fails(c) \/ "Edge" \notin c.tables
       THEN Err(d1)
       ELSE LET s1 == DetachDelete(d1, Contained(c, file_id))
                d2 == Tick(s1, "delete", "node")
            IN IF Fails(s1)
               THEN Err(d2)
               ELSE Ok(DetachDelete(d2, {file_id}))

\* CREATE NODE TABLE / CREATE REL TABLE
CreateTable(c, t) ==
    LET d == Tick(c, "create", t)
    IN IF Fails(c) \/ t \in c.tables
       THEN Err(d)
       ELSE Ok([d EXCEPT !.tables = @ \cup {t}])

\* a check that never finds the schema
check_schema_exists_Never(c) == [Tick(c, "sentinel", "") EXCEPT !.ret = "false"]

\* MATCH (n:Node) RETURN count(n) LIMIT 1 succeeded
check_schema_exists(c) ==
    LET d == Tick(c, "sentinel", "")
    IN [d EXCEPT !.ret = IF Fails(c) \/ "Node" \notin c.tables THEN "false" ELSE "true"]

create_schema(c) ==
    LET c1 == CreateTable(c, "Node")
        c2 == CreateTable(c1, "Metadata")
        c3 == CreateTable(c2, "Edge")
    IN IF ~c1.ok THEN c1 ELSE IF ~c2.ok THEN c2 ELSE c3

\* CREATE (m:Metadata {key: 'schema_version', ...}): the key is the primary key
set_schema_version(c, version) ==
    LET d == Tick(c, "set_metadata", "schema_version")
    IN IF Fails(c) \/ "Metadata" \notin c.tables \/ c.meta.schema_version # NoValue
       THEN Err(d)
       ELSE Ok([d EXCEPT !.meta.schema_version = version])

initialize_schema(c) ==
    LET c0 == check_schema_exists(c)
    IN IF c0.ret = "true" THEN Ok(c0)
       ELSE LET c1 == create_schema(c0)
            IN IF ~c1.ok THEN c1 ELSE set_schema_version(c1, "1")

\* KuzuDatabase::new, then the schema
Database_new(c) ==
    LET d == Tick(c, "open", "")
    IN IF Fails(c) THEN Err(d) ELSE initialize_schema(d)

\* get_metadata / set_metadata
get_metadata(c, key) ==
    LET d == Tick(c, "get_metadata", key)
    IN IF Fails(c) \/ "Metadata" \notin c.tables
       THEN Err(d)
       ELSE Ok([d EXCEPT !.ret = c.meta[key]])

set_metadata(c, key, value) ==
    LET d == Tick(c, "set_metadata", key)
    IN IF Fails(c) \/ "Metadata" \notin c.tables
       THEN Err(d)
       ELSE Ok([d EXCEPT !.meta[key] = value])

(***************************************************************************)
(* git.rs                                                                  *)
(***************************************************************************)
is_git_repo == isRepo

\* git rev-parse HEAD
get_current_commit(c) ==
    LET d == Tick(c, "rev-parse", "")
    IN IF Fails(c) \/ ~isRepo \/ commits = <<>>
       THEN Err(d)
       ELSE Ok([d EXCEPT !.ret = RevOf(HeadIdx)])

\* the order in which git lists paths
PathOrder == <<PathJ, PathA, PathB>>

Added(S, T) == {p \in AllPaths : S[p] = Absent /\ T[p] # Absent}
Removed(S, T) == {p \in AllPaths : S[p] # Absent /\ T[p] = Absent}

FirstPath(ps) == PathOrder[FirstIdx(PathOrder, LAMBDA p : p \in ps)]

\* git's rename detection, for identical content: q is the new path of p
RenameOf(S, T, p, q) ==
    /\ p \in Removed(S, T) /\ q \in Added(S, T) /\ S[p] = T[q]
    /\ p = FirstPath({x \in Removed(S, T) : S[x] = T[q]})
    /\ q = FirstPath({y \in Added(S, T) : T[y] = S[p]})

\* the lines of git diff --name-status S..T, each split at the tabs; the
\* status column is a sequence of characters
DiffLine(S, T, p) ==
    IF p \in Added(S, T)
    THEN IF \E o \in AllPaths : RenameOf(S, T, o, p)
         THEN <<<<<<"R", "1", "0", "0">>, CHOOSE o \in AllPaths : RenameOf(S, T, o, p), p>>>>
         ELSE <<<<<<"A">>, p>>>>
    ELSE IF p \in Removed(S, T)
    THEN IF \E q \in AllPaths : RenameOf(S, T, p, q) THEN <<>> ELSE <<<<<<"D">>, p>>>>
    ELSE IF S[p] # T[p] THEN <<<<<<"M">>, p>>>>
    ELSE <<>>

NameStatus(S, T) == Flatten(MapSeq(PathOrder, LAMBDA p : DiffLine(S, T, p)))

FileChange(path, change_type, old_path) ==
    [path |-> path, change_type |-> change_type, old_path |-> old_path]

\* a match that takes a rename line for the removal of its old path
ParseLine_RenameAsDelete(parts) ==
    IF Len(parts) < 2 \/ parts[1] = <<>> THEN <<>>
    ELSE LET ch == parts[1][1]
         IN IF ch = "A" THEN <<FileChange(parts[2], "Added", parts[2])>>
            ELSE IF ch = "M" THEN <<FileChange(parts[2], "Modified", parts[2])>>
            ELSE IF ch \in {"D", "R"} THEN <<FileChange(parts[2], "Deleted", parts[2])>>
            ELSE <<>>

\* the match on the first character of the status column
ParseLine(parts) ==
    IF Len(parts) < 2 \/ parts[1] = <<>> THEN <<>>
    ELSE LET ch == parts[1][1]
         IN IF ch = "A" THEN <<FileChange(parts[2], "Added", parts[2])>>
            ELSE IF ch = "M" THEN <<FileChange(parts[2], "Modified", parts[2])>>
            ELSE IF ch = "D" THEN <<FileChange(parts[2], "Deleted", parts[2])>>
            ELSE IF ch = "R" /\ Len(parts) >= 3
                 THEN <<FileChange(parts[3], "Renamed", parts[2])>>
            ELSE <<>>

\* a diff that answers "no change" for a revision git does not know
get_file_changes_AnyRev(c, from_commit, to_commit) ==
    LET d == Tick(c, "diff", to_commit)
    IN IF Fails(c) \/ ~isRepo THEN Err(d)
       ELSE IF from_commit \notin KnownRevs \/ to_commit \notin KnownRevs
       THEN Ok([d EXCEPT !.ret = <<>>])
       ELSE Ok([d EXCEPT !.ret =
                   Flatten(MapSeq(NameStatus(TreeOf(from_commit), TreeOf(to_commit)),
                                  ParseLine))])

get_file_changes(c, from_commit, to_commit) ==
    LET d == Tick(c, "diff", to_commit)
    IN IF Fails(c) \/ ~isRepo \/ from_commit \notin KnownRevs \/ to_commit \notin KnownRevs
       THEN Err(d)
       ELSE Ok([d EXCEPT !.ret =
                   Flatten(MapSeq(NameStatus(TreeOf(from_commit), TreeOf(to_commit)),
                                  ParseLine))])

(***************************************************************************)
(* fs.rs                                                                   *)
(***************************************************************************)
\* the files find_typescript_files can return, as a set: the walk's order
\* is not specified
find_typescript_files == {p \in AllPaths : disk[p] # Absent /\ p.ext \in DiscoverExts}

\* the orders in which the walk can list the files: whatever order the
\* directory entries come in
WalkOrder(ps) == {fs \in [1..Cardinality(ps) -> ps] : Range(fs) = ps}

\* a read that succeeds on every file that exists
read_file_Any(p) == disk[p] # Absent

\* Project::read_file
read_file(p) == disk[p] # Absent /\ Contents[disk[p]].readable

(***************************************************************************)
(* ingest.rs                                                               *)
(***************************************************************************)
FileId(path_str) == Node_new("File", path_str, path_str).id

NoChanges == [some |-> FALSE, files_to_process |-> <<>>, files_to_delete |-> <<>>]

\* the partition of the changes into files_to_process and files_to_delete
\* a partition that forgets the old path of a rename
RECURSIVE Partition_NewOnly(_, _)
Partition_NewOnly(changes, acc) ==
    IF changes = <<>> THEN acc
    ELSE LET ch == Head(changes)
             is_ts == ch.path.ext \in ts_extensions
         IN IF ~is_ts THEN Partition_NewOnly(Tail(changes), acc)
            ELSE IF ch.change_type \in {"Added", "Modified"}
            THEN Partition_NewOnly(Tail(changes),
                                   [acc EXCEPT !.files_to_process = Append(@, ch.path)])
            ELSE IF ch.change_type = "Deleted"
            THEN Partition_NewOnly(Tail(changes),
                                   [acc EXCEPT !.files_to_delete = Append(@, ch.path)])
            ELSE Partition_NewOnly(Tail(changes),
                                   [acc EXCEPT !.files_to_process = Append(@, ch.path)])

RECURSIVE Partition(_, _)
Partition(changes, acc) ==
    IF changes = <<>> THEN acc
    ELSE LET ch == Head(changes)
             is_ts == ch.path.ext \in ts_extensions
         IN IF ~is_ts THEN Partition(Tail(changes), acc)
            ELSE IF ch.change_type \in {"Added", "Modified"}
            THEN Partition(Tail(changes),
                           [acc EXCEPT !.files_to_process = Append(@, ch.path)])
            ELSE IF ch.change_type = "Deleted"
            THEN Partition(Tail(changes),
                           [acc EXCEPT !.files_to_delete = Append(@, ch.path)])
            ELSE Partition(Tail(changes),
                           [acc EXCEPT !.files_to_delete = Append(@, ch.old_path),
                                       !.files_to_process = Append(@, ch.path)])

\* a selection that does not recognise an unchanged HEAD
get_incremental_changes_NoShortcut(c) ==
    IF ~is_git_repo THEN Ok([c EXCEPT !.ret = NoChanges])
    ELSE LET c1 == get_metadata(c, "last_commit")
         IN IF ~c1.ok THEN c1
            ELSE IF c1.ret = NoValue THEN Ok([c1 EXCEPT !.ret = NoChanges])
            ELSE LET c2 == get_current_commit(c1)
                 IN IF ~c2.ok THEN c2
                    ELSE IF c1.ret = c2.ret THEN Ok([c2 EXCEPT !.ret = NoChanges])
                    ELSE LET c3 == get_file_changes(c2, c1.ret, c2.ret)
                         IN IF ~c3.ok THEN c3
                            ELSE Ok([c3 EXCEPT !.ret =
                                       Partition(c3.ret, [NoChanges EXCEPT !.some = TRUE])])

\* ret is the Option<IncrementalChanges>; ok = FALSE is the Err return
get_incremental_changes(c) ==
    IF ~is_git_repo THEN Ok([c EXCEPT !.ret = NoChanges])
    ELSE LET c1 == get_metadata(c, "last_commit")
         IN IF ~c1.ok THEN c1
            ELSE IF c1.ret = NoValue THEN Ok([c1 EXCEPT !.ret = NoChanges])
            ELSE LET last_commit == c1.ret
                     c2 == get_current_commit(c1)
                 IN IF ~c2.ok THEN c2
                    ELSE IF last_commit = c2.ret
                    THEN Ok([c2 EXCEPT !.ret = [NoChanges EXCEPT !.some = TRUE]])
                    ELSE LET c3 == get_file_changes(c2, last_commit, c2.ret)
                         IN IF ~c3.ok THEN c3
                            ELSE Ok([c3 EXCEPT !.ret =
                                       Partition(c3.ret, [NoChanges EXCEPT !.some = TRUE])])

\* the loop deleting the removed and renamed files; a failed delete is
\* logged and the loop goes on
RECURSIVE DeleteFiles(_, _)
DeleteFiles(c, paths) ==
    IF paths = <<>> THEN c
    ELSE DeleteFiles(Ok(delete_file_and_symbols(c, FileId(display(Head(paths))))),
                     Tail(paths))

\* a selection that hands the Err of get_incremental_changes to its caller
get_incremental_files_Strict(c) ==
    LET c1 == get_incremental_changes(c)
    IN IF ~c1.ok THEN c1
       ELSE IF ~c1.ret.some THEN c1
       ELSE [DeleteFiles(c1, c1.ret.files_to_delete) EXCEPT !.ret = c1.ret]

\* ret.some = FALSE is the None return (fall back to full discovery)
get_incremental_files(c) ==
    LET c1 == get_incremental_changes(c)
    IN IF ~c1.ok THEN Ok([c1 EXCEPT !.ret = NoChanges])
       ELSE IF ~c1.ret.some THEN c1
       ELSE [DeleteFiles(c1, c1.ret.files_to_delete) EXCEPT !.ret = c1.ret]

\* a failed write of the per-file loop: warn!, had_errors = true
Flag(c) == [c EXCEPT !.had_errors = TRUE, !.ret = "failed"]

\* for node in &parsed.nodes
RECURSIVE InsertEntities(_, _, _)
InsertEntities(c, file_id, ns) ==
    IF ns = <<>> THEN c
    ELSE LET c1 == insert_node(c, Head(ns))
         IN IF ~c1.ok THEN InsertEntities(Flag(c1), file_id, Tail(ns))
            ELSE LET c2 == [c1 EXCEPT !.stats.symbols_created = @ + 1,
                                      !.written = @ \cup {Head(ns).id}]
                     c3 == insert_edge(c2, Edge(file_id, Head(ns).id, "Contains"))
                 IN IF ~c3.ok THEN InsertEntities(Flag(c3), file_id, Tail(ns))
                    ELSE InsertEntities([c3 EXCEPT !.stats.edges_created = @ + 1],
                                        file_id, Tail(ns))

\* for edge in &parsed.edges
RECURSIVE InsertIntraEdges(_, _)
InsertIntraEdges(c, es) ==
    IF es = <<>> THEN c
    ELSE LET c1 == insert_edge(c, Head(es))
         IN IF ~c1.ok THEN InsertIntraEdges(Flag(c1), Tail(es))
            ELSE InsertIntraEdges([c1 EXCEPT !.stats.edges_created = @ + 1], Tail(es))

\* an iteration that also writes the Imports edges of its file
PersistOne_WithImports(c, parsed) ==
    LET file_node == Node_new("File", parsed.path, parsed.path)
        c1 == delete_file_and_symbols(c, file_node.id)
    IN IF ~c1.ok THEN Flag(c1)
       ELSE LET c2 == insert_node(c1, file_node)
            IN IF ~c2.ok THEN Flag(c2)
               ELSE LET c3 == InsertEntities([c2 EXCEPT !.written = @ \cup {file_node.id}],
                                             file_node.id, parsed.nodes)
                        c4 == InsertIntraEdges(c3, parsed.edges)
                        c5 == InsertIntraEdges(c4,
                                  MapSeq(parsed.import_edges,
                                         LAMBDA pr : Edge(FileId(pr[1]), FileId(pr[2]),
                                                          "Imports")))
                    IN [c5 EXCEPT !.stats.files_processed = @ + 1]

\* one iteration of the loop over parsed_files; ret = "failed" when a write
\* of the batch failed, written = the ids of the nodes the batch inserted
PersistOne(c, parsed) ==
    LET file_node == Node_new("File", parsed.path, parsed.path)
        c1 == delete_file_and_symbols(c, file_node.id)
    IN IF ~c1.ok THEN Flag(c1)
       ELSE LET c2 == insert_node(c1, file_node)
            IN IF ~c2.ok THEN Flag(c2)
               ELSE LET c3 == InsertEntities([c2 EXCEPT !.written = @ \cup {file_node.id}],
                                             file_node.id, parsed.nodes)
                        c4 == InsertIntraEdges(c3, parsed.edges)
                    IN [c4 EXCEPT !.stats.files_processed = @ + 1]

\* a loop that gives up at the first Imports edge that cannot be written
RECURSIVE InsertImportEdges_Stop(_, _)
InsertImportEdges_Stop(c, pairs) ==
    IF pairs = <<>> THEN c
    ELSE LET import_edge == Edge(FileId(Head(pairs)[1]), FileId(Head(pairs)[2]), "Imports")
             c1 == insert_edge(c, import_edge)
         IN IF ~c1.ok THEN c1
            ELSE InsertImportEdges_Stop([c1 EXCEPT !.stats.edges_created = @ + 1],
                                        Tail(pairs))

\* the loop creating the Imports edges between files
RECURSIVE InsertImportEdges(_, _)
InsertImportEdges(c, pairs) ==
    IF pairs = <<>> THEN c
    ELSE LET import_edge == Edge(FileId(Head(pairs)[1]), FileId(Head(pairs)[2]), "Imports")
             c1 == insert_edge(c, import_edge)
         IN IF ~c1.ok THEN InsertImportEdges(c1, Tail(pairs))
            ELSE InsertImportEdges([c1 EXCEPT !.stats.edges_created = @ + 1], Tail(pairs))

resolve_cross_file_calls == <<>>

\* the synthetic Repository and Language nodes
repository_node == Node_new("Repository", Root, Root)

\* a language node that is a second repository node
language_node_AsRepository == Node_new("Repository", "typescript", Root)

language_node == Node_new("Language", "typescript", Root)

\* a re-creation of a synthetic node that ignores the store's errors
SynthOne_Lenient(c, n) == Ok(insert_node(Ok(delete_file_and_symbols(c, n.id)), n))

\* Delete and re-create a synthetic node
SynthOne(c, n) ==
    LET c1 == delete_file_and_symbols(c, n.id)
    IN IF ~c1.ok THEN c1 ELSE insert_node(c1, n)

\* the commit hash stored whether or not a write of the per-file loop failed
StoreCommit_Unguarded(c) ==
    IF is_git_repo
    THEN LET c1 == get_current_commit(c)
         IN IF ~c1.ok THEN Ok(c1)
            ELSE LET c2 == set_metadata(c1, "last_commit", c1.ret)
                 IN Ok([c2 EXCEPT !.ret = IF c2.ok THEN "stored" ELSE NoValue])
    ELSE c

\* Only store commit hash if ingestion was successful
StoreCommit(c) ==
    IF ~c.had_errors /\ is_git_repo
    THEN LET c1 == get_current_commit(c)
         IN IF ~c1.ok THEN Ok(c1)
            ELSE LET c2 == set_metadata(c1, "last_commit", c1.ret)
                 IN Ok([c2 EXCEPT !.ret = IF c2.ok THEN "stored" ELSE NoValue])
    ELSE c

(***************************************************************************)
(* Initial state: a repository with one commit and a store that does not   *)
(* exist yet.                                                              *)
(*                                                                         *)
(* hist records, for the properties, what a run found and did:             *)
(*   commit0, nodes0, edges0  the store when the run started               *)
(*   rerun    the run before returned Ok without had_errors and the tree   *)
(*            has not changed since                                        *)
(*   mode     "incremental" when the files came from the VCS diff          *)
(*   stored   the run wrote last_commit                                    *)
(*   quiet    the last run returned Ok without had_errors, tree unchanged  *)
(*   all_ok   every run so far returned Ok without had_errors              *)
(*   fault    the calls of the run that failed for an outside reason:      *)
(*            the step, the file of the batch and the index of the call    *)
(*   killed   the last run was killed before it returned                   *)
(*   after_kill  the run before this one was killed                        *)
(*   after_errors  the run before this one returned Ok with had_errors     *)
(*            and the tree has not changed since                            *)
(*   hurt     the files whose nodes or edges the killed run changed        *)
(*   log      the calls the run has made to the store and to git, in order *)
(***************************************************************************)
InitTree == [p \in AllPaths |-> IF p = PathA THEN 3 ELSE IF p = PathB THEN 1 ELSE Absent]

ZeroStats == [files_processed |-> 0, symbols_created |-> 0, edges_created |-> 0]
NoBatches ==
    [p \in AllPaths |-> [outcome |-> "none", written |-> {}, calls |-> 0, failed |-> 0]]

\* no ingest run has started: the store is empty
\* threads: the size of the pool, 0 before it is built; running: the
\* positions in files whose closure a worker is in; done: the closures that
\* have returned, in the order of their return, each with its Option
NoWorkers == [threads |-> 0, running |-> {}, done |-> <<>>]

InitIngest ==
    /\ disk = InitTree
    /\ commits = <<InitTree>>
    /\ tables = {}
    /\ nodes = {}
    /\ edges = EmptyBag
    /\ meta = [schema_version |-> NoValue, last_commit |-> NoValue]
    /\ pc = "idle"
    /\ options = [clean |-> FALSE, incremental |-> FALSE]
    /\ files = <<>>
    /\ to_delete = <<>>
    /\ parsed_files = <<>>
    /\ all_import_edges = <<>>
    /\ workers = NoWorkers
    /\ had_errors = FALSE
    /\ stats = ZeroStats
    /\ runs = 0
    /\ faults = 0
    /\ hist = [commit0 |-> NoValue, nodes0 |-> {}, edges0 |-> EmptyBag,
               rerun |-> FALSE, mode |-> "none", stored |-> FALSE,
               quiet |-> FALSE, all_ok |-> TRUE, fault |-> {},
               killed |-> FALSE, after_kill |-> FALSE, after_errors |-> FALSE,
               hurt |-> {},
               log |-> <<>>]
    /\ batches = NoBatches

\* s: the field of the Node; literal: what insert_node puts between the
\* quotes; kept: what the engine stored; step: how far the field has come
NoText == [s |-> <<>>, literal |-> <<>>, kept |-> <<>>, step |-> "none"]

\* fn: the function called; in: its arguments; out: what it returned
NoCall == [fn |-> "none", in |-> <<>>, out |-> <<>>, done |-> FALSE]

Init ==
    /\ isRepo \in BOOLEAN
    /\ InitIngest
    /\ built = <<>>
    /\ text = NoText
    /\ call = NoCall

Returned == pc \in {"idle", "done", "failed", "killed"}

\* the step made r.calls fallible calls and the fa-th of them failed
Inject(fa, r) ==
    /\ fa = 0 \/ (faults < MaxFaults /\ fa <= r.calls)
    /\ faults' = IF fa = 0 THEN faults ELSE faults + 1

Commit(r) ==
    /\ tables' = r.tables
    /\ nodes' = r.nodes
    /\ edges' = r.edges
    /\ meta' = r.meta

\* the history with the failed call of a step recorded
Faulted(h, step, file, fa) ==
    IF fa = 0 THEN h
    ELSE [h EXCEPT !.fault = @ \cup {[step |-> step, file |-> file, at |-> fa]}]

\* the history with the calls of a step added to the log of the run
Logged(h, r) == [h EXCEPT !.log = r.log]

\* the run returns Err
Abort(h) == [h EXCEPT !.quiet = FALSE, !.all_ok = FALSE]

(***************************************************************************)
(* The environment: one change of the project tree, committed at once,     *)
(* between two runs; pc = "done" or "failed" is the state in which a run   *)
(* has just returned.  Files that are not TypeScript files enter the tree  *)
(* by a rename only.                                                       *)
(***************************************************************************)
Changed(tree) ==
    /\ Returned
    /\ tree # disk
    /\ Len(commits) < MaxCommits
    /\ disk' = tree
    /\ commits' = Append(commits, tree)
    /\ pc' = "idle"
    /\ hist' = [hist EXCEPT !.quiet = FALSE]
    /\ UNCHANGED <<aux, isRepo, tables, nodes, edges, meta, options, files, to_delete,
                   parsed_files, all_import_edges, had_errors, stats, workers, runs,
                   faults, batches>>

\* a last_commit that names no revision of the repository, written through
\* the store's interface between two runs
ZeroRev == "0000000000000000000000000000000000000000"

SetInvalidCommit ==
    /\ Returned
    /\ "Metadata" \in tables
    /\ meta.last_commit \in KnownRevs
    /\ faults < MaxFaults
    /\ faults' = faults + 1
    /\ meta' = [meta EXCEPT !.last_commit = ZeroRev]
    /\ pc' = "idle"
    /\ hist' = [hist EXCEPT !.quiet = FALSE]
    /\ UNCHANGED <<aux, world, tables, nodes, edges, locals, runs, batches>>

WriteFile ==
    \E p \in {x \in AllPaths : x.ext \in DiscoverExts}, k \in ContentIds :
        Changed([disk EXCEPT ![p] = k])

RemoveFile == \E p \in AllPaths : disk[p] # Absent /\ Changed([disk EXCEPT ![p] = Absent])

RenameFile ==
    \E p, q \in AllPaths :
        /\ disk[p] # Absent /\ disk[q] = Absent
        /\ Changed([disk EXCEPT ![q] = disk[p], ![p] = Absent])

(***************************************************************************)
(* ingest(options), in the steps of its body.                              *)
(***************************************************************************)
\* the rows a file owns: its nodes and the edges that leave them
OwnNodes(ns, p) == {n \in ns : n.file = display(p)}
OwnEdges(ns, es, p) ==
    {e \in DOMAIN es : \E n \in OwnNodes(ns, p) : n.id = e.from_id}

\* the process is killed between two steps of the run: nothing more is
\* written, the store keeps what the steps before wrote, the pool is gone
Kill ==
    /\ pc \in {"select", "synth", "parse", "persist", "finish"}
    /\ faults < MaxFaults
    /\ faults' = faults + 1
    /\ pc' = "killed"
    /\ hist' = [hist EXCEPT
                   !.quiet = FALSE, !.all_ok = FALSE, !.killed = TRUE,
                   !.hurt = @ \cup {p \in AllPaths :
                                       \/ OwnNodes(nodes, p) # OwnNodes(hist.nodes0, p)
                                       \/ OwnEdges(nodes, edges, p)
                                              # OwnEdges(hist.nodes0, hist.edges0, p)}]
    /\ workers' = NoWorkers
    /\ UNCHANGED <<aux, world, store, options, files, to_delete, parsed_files,
                   all_import_edges, had_errors, stats, runs, batches>>

\* Database::new and, when clean, clear
Open ==
    \E clean, incremental \in BOOLEAN, fa \in 0..MaxCallsPerStep :
        LET c1 == Database_new([Ctx(fa) EXCEPT !.log = <<>>])
            r == IF c1.ok /\ clean THEN clear(c1) ELSE c1
            h == [hist EXCEPT !.commit0 = meta.last_commit, !.nodes0 = nodes,
                              !.edges0 = edges, !.rerun = hist.quiet,
                              !.mode = "none", !.stored = FALSE, !.quiet = FALSE,
                              !.fault = IF fa = 0 THEN {}
                                        ELSE {[step |-> "open", file |-> "", at |-> fa]},
                              !.killed = FALSE, !.after_kill = hist.killed,
                              !.after_errors = (pc = "done" /\ had_errors),
                              !.hurt = IF hist.killed THEN @ ELSE {},
                              !.log = r.log]
        IN /\ Returned
           /\ runs < MaxRuns
           /\ Inject(fa, r)
           /\ Commit(r)
           /\ pc' = IF r.ok THEN "select" ELSE "failed"
           /\ options' = [clean |-> clean, incremental |-> incremental]
           /\ files' = <<>>
           /\ to_delete' = <<>>
           /\ parsed_files' = <<>>
           /\ all_import_edges' = <<>>
           /\ had_errors' = FALSE
           /\ stats' = ZeroStats
           /\ workers' = NoWorkers
           /\ runs' = runs + 1
           /\ hist' = IF r.ok THEN h ELSE [h EXCEPT !.all_ok = FALSE]
           /\ batches' = NoBatches
           /\ UNCHANGED <<aux, world>>

\* Determine which files to process
SelectFiles ==
    \E fa \in 0..MaxCallsPerStep, order \in WalkOrder(find_typescript_files) :
        LET try == options.incremental /\ ~options.clean
            r == IF try THEN get_incremental_files(Ctx(fa)) ELSE Ctx(fa)
            inc == try /\ r.ok /\ r.ret.some
        IN /\ pc = "select"
           /\ Inject(fa, r)
           /\ Commit(r)
           /\ files' = IF inc THEN r.ret.files_to_process ELSE order
           /\ to_delete' = IF inc THEN r.ret.files_to_delete ELSE <<>>
           /\ pc' = IF r.ok THEN "synth" ELSE "failed"
           /\ hist' = Logged(Faulted(IF r.ok
                                      THEN [hist EXCEPT !.mode = IF inc THEN "incremental"
                                                                        ELSE "full"]
                                      ELSE Abort(hist),
                                      "select", "", fa), r)
           /\ UNCHANGED <<aux, world, options, parsed_files, all_import_edges, had_errors,
                          stats, workers, runs, batches>>

\* Delete and re-create the repository node and the language node
SynthNodes ==
    \E fa \in 0..MaxCallsPerStep :
        LET c1 == SynthOne(Ctx(fa), repository_node)
            r == IF c1.ok THEN SynthOne(c1, language_node) ELSE c1
        IN /\ pc = "synth"
           /\ Inject(fa, r)
           /\ Commit(r)
           /\ pc' = IF r.ok THEN "parse" ELSE "failed"
           /\ hist' = Logged(Faulted(IF r.ok THEN hist ELSE Abort(hist), "synth", "", fa), r)
           /\ UNCHANGED <<aux, world, locals, runs, batches>>

\* the pool the closure runs in: of options.threads threads, or the
\* global pool
BuildPool ==
    \E threads \in 1..MaxThreads :
        /\ pc = "parse"
        /\ workers.threads = 0
        /\ workers' = [workers EXCEPT !.threads = threads]
        /\ UNCHANGED <<aux, world, store, pc, options, files, to_delete, parsed_files,
                       all_import_edges, had_errors, stats, runs, faults, hist, batches>>

\* a free thread of the pool takes a file no worker has taken
StartWorker ==
    \E i \in DOMAIN files :
        /\ pc = "parse"
        /\ i \notin workers.running
        /\ \A j \in DOMAIN workers.done : workers.done[j].at # i
        /\ Cardinality(workers.running) < workers.threads
        /\ workers' = [workers EXCEPT !.running = @ \cup {i}]
        /\ UNCHANGED <<aux, world, store, pc, options, files, to_delete, parsed_files,
                       all_import_edges, had_errors, stats, runs, faults, hist, batches>>

\* the closure of filter_map on one file: Some((path_str, parsed)) or None
parse_one(p) ==
    IF read_file(p)
    THEN <<parse_typescript_file(display(p), Contents[disk[p]], disk)>>
    ELSE <<>>

\* a worker returns from the closure
FinishWorker ==
    \E i \in workers.running :
        /\ pc = "parse"
        /\ workers' = [workers EXCEPT
                           !.running = @ \ {i},
                           !.done = Append(@, [at |-> i, out |-> parse_one(files[i])])]
        /\ UNCHANGED <<aux, world, store, pc, options, files, to_delete, parsed_files,
                       all_import_edges, had_errors, stats, runs, faults, hist, batches>>

\* a join that does not wait for the workers
Joined_Early(w, fs) == w.threads > 0

\* install returns: every closure has returned
Joined(w, fs) == w.threads > 0 /\ \A i \in DOMAIN fs : \E j \in DOMAIN w.done : w.done[j].at = i

\* collect: the Some values, in the order of files
collect(w, fs) ==
    Flatten(MapSeq(SelectSeq([i \in DOMAIN fs |-> i],
                             LAMBDA i : \E j \in DOMAIN w.done : w.done[j].at = i),
                   LAMBDA i : w.done[CHOOSE j \in DOMAIN w.done : w.done[j].at = i].out))

\* the parallel parse has joined; the collection of the import edges
ParseFiles ==
    LET parsed == collect(workers, files)
    IN /\ pc = "parse"
       /\ Joined(workers, files)
       /\ parsed_files' = parsed
       /\ all_import_edges' = Flatten(MapSeq(parsed, LAMBDA f : f.import_edges))
       /\ had_errors' = FALSE
       /\ stats' = ZeroStats
       /\ workers' = [workers EXCEPT !.threads = 0, !.done = <<>>]
       /\ pc' = "persist"
       /\ UNCHANGED <<aux, world, store, options, files, to_delete, runs, faults, hist,
                      batches>>

PathOfStr(str) == CHOOSE p \in AllPaths : display(p) = str

\* one iteration of the loop over parsed_files
PersistFile ==
    \E fa \in 0..MaxCallsPerStep :
        LET parsed == Head(parsed_files)
            r == PersistOne([Ctx(fa) EXCEPT !.ret = "ok"], parsed)
        IN /\ pc = "persist"
           /\ parsed_files # <<>>
           /\ Inject(fa, r)
           /\ Commit(r)
           /\ had_errors' = r.had_errors
           /\ stats' = r.stats
           /\ parsed_files' = Tail(parsed_files)
           /\ batches' = [batches EXCEPT ![PathOfStr(parsed.path)] =
                             [outcome |-> r.ret, written |-> r.written,
                              calls |-> r.calls, failed |-> r.failed]]
           /\ hist' = Logged(Faulted(hist, "persist", parsed.path, fa), r)
           /\ UNCHANGED <<aux, world, pc, options, files, to_delete, all_import_edges,
                          workers, runs>>

\* Create Import edges between files
PersistImports ==
    \E fa \in 0..MaxCallsPerStep :
        LET r == InsertImportEdges(Ctx(fa), all_import_edges)
        IN /\ pc = "persist"
           /\ parsed_files = <<>>
           /\ Inject(fa, r)
           /\ Commit(r)
           /\ stats' = r.stats
           /\ pc' = "finish"
           /\ hist' = Logged(Faulted(hist, "imports", "", fa), r)
           /\ UNCHANGED <<aux, world, options, files, to_delete, parsed_files,
                          all_import_edges, had_errors, workers, runs, batches>>

\* the cross-file call edges (none), the commit hash, and the return
Finish ==
    \E fa \in 0..MaxCallsPerStep :
        LET r == StoreCommit(Ctx(fa))
        IN /\ pc = "finish"
           /\ Inject(fa, r)
           /\ Commit(r)
           /\ pc' = "done"
           /\ hist' = Logged(Faulted([hist EXCEPT !.stored = (r.ret = "stored"),
                                                   !.quiet = ~had_errors,
                                                   !.all_ok = @ /\ ~had_errors],
                                      "finish", "", fa), r)
           /\ UNCHANGED <<aux, world, locals, runs, batches>>

Next ==
    \/ WriteFile
    \/ RemoveFile
    \/ RenameFile
    \/ SetInvalidCommit
    \/ Open
    \/ Kill
    \/ SelectFiles
    \/ SynthNodes
    \/ BuildPool
    \/ StartWorker
    \/ FinishWorker
    \/ ParseFiles
    \/ PersistFile
    \/ PersistImports
    \/ Finish

Spec == Init /\ [][Next]_vars

(***************************************************************************)
(* The ingest in a repository that somebody else commits to while a run is *)
(* under way.  The project directory is not written during the parse       *)
(* phase; before it and after it a change of the tree may be committed,    *)
(* which moves HEAD between the two reads of it that a run makes.  The     *)
(* commit is one of the MaxFaults outside events of a behaviour.           *)
(***************************************************************************)
HeadAdvances ==
    \E p \in {x \in AllPaths : x.ext \in DiscoverExts}, k \in ContentIds \cup {Absent} :
        /\ pc \in {"synth", "persist", "finish"}
        /\ isRepo
        /\ disk[p] # k
        /\ Len(commits) < MaxCommits
        /\ faults < MaxFaults
        /\ faults' = faults + 1
        /\ disk' = [disk EXCEPT ![p] = k]
        /\ commits' = Append(commits, disk')
        /\ UNCHANGED <<aux, isRepo, store, locals, pc, runs, hist, batches>>

NextRace ==
    \/ Next
    \/ HeadAdvances

SpecRace == Init /\ [][NextRace]_vars

(***************************************************************************)
(* The builders of model.rs, applied in any order to two Nodes.            *)
(***************************************************************************)
BuilderKinds == {"Function", "Class"}
BuilderNames == {"f", "g"}
BuilderFiles == {"/r/a.ts"}
BuilderLines == {1, 2, 256}
BuilderBodies == {"function f() {}", "class f {}"}
BuilderMeta == {<<"exported", "true">>, <<"exported", "false">>}

InitNode ==
    /\ isRepo = TRUE
    /\ InitIngest
    /\ \E t1, t2 \in BuilderKinds, n1, n2 \in BuilderNames, f1, f2 \in BuilderFiles :
           built = <<Node_new(t1, n1, f1), Node_new(t2, n2, f2)>>
    /\ text = NoText
    /\ call = NoCall

WithLines ==
    \E i \in DOMAIN built, sl, el \in BuilderLines :
        /\ built' = [built EXCEPT ![i] = with_lines(@, sl, el)]
        /\ UNCHANGED <<world, store, locals, pc, runs, faults, hist, batches, text, call>>

WithBody ==
    \E i \in DOMAIN built, body \in BuilderBodies :
        /\ built' = [built EXCEPT ![i] = with_body(@, body)]
        /\ UNCHANGED <<world, store, locals, pc, runs, faults, hist, batches, text, call>>

WithMeta ==
    \E i \in DOMAIN built, kv \in BuilderMeta :
        /\ built' = [built EXCEPT ![i] = with_meta(@, kv[1], kv[2])]
        /\ UNCHANGED <<world, store, locals, pc, runs, faults, hist, batches, text, call>>

NextNode ==
    \/ WithLines
    \/ WithBody
    \/ WithMeta

SpecNode == InitNode /\ [][NextNode]_vars

(***************************************************************************)
(* A string field of a Node on its way through insert_node into the store. *)
(***************************************************************************)
RECURSIVE StringsUpTo(_)
StringsUpTo(n) ==
    IF n = 0 THEN {<<>>}
    ELSE LET shorter == StringsUpTo(n - 1)
         IN shorter \cup {Append(s, ch) : s \in shorter, ch \in Chars}

InitEscape ==
    /\ isRepo = TRUE
    /\ InitIngest
    /\ built = <<>>
    /\ \E s \in StringsUpTo(MaxLen) : text = [NoText EXCEPT !.s = s, !.step = "field"]
    /\ call = NoCall

\* format!("... '{}' ...", escape_kuzu_string(&node.name))
EscapeField ==
    /\ text.step = "field"
    /\ text' = [text EXCEPT !.literal = escape_kuzu_string(text.s), !.step = "query"]
    /\ UNCHANGED <<world, store, locals, pc, runs, faults, hist, batches, built, call>>

\* conn.query(&query)?: the engine reads the literal or rejects the query
RunQuery ==
    /\ text.step = "query"
    /\ text' = IF IsLiteral(text.literal)
               THEN [text EXCEPT !.kept = Decode(text.literal), !.step = "stored"]
               ELSE [text EXCEPT !.step = "rejected"]
    /\ UNCHANGED <<world, store, locals, pc, runs, faults, hist, batches, built, call>>

NextEscape ==
    \/ EscapeField
    \/ RunQuery

SpecEscape == InitEscape /\ [][NextEscape]_vars

(***************************************************************************)
(* Calls of the functions of the library that depend on their arguments    *)
(* only: the partition of a change list, the resolution of an import       *)
(* specifier, the Calls edges of a file, the parse of a file, the reading  *)
(* of the lines of a diff.                                                 *)
(***************************************************************************)
\* the arguments the calls are made with.  changes: the lists of changes
\* git can report, over three TypeScript names and a JavaScript name;
\* trees: b.ts, b.tsx, b/index.ts and b/index.tsx, each present or not;
\* specifiers: './b', './c' and the packages 'b', 'c'; contents: files of
\* functions in document order, any two of them nested or one after the
\* other, with one call site; sources: files of functions, classes and
\* interfaces with one call or `new` site, and files of declarations with
\* heritage clauses; lines: the tab-separated columns of name-status lines
ArgSets ==
    LET paths == AllPaths \cup {[stem |-> "t.d", ext |-> "ts"], [stem |-> "c", ext |-> "tsx"]}
        one == {FileChange(p, t, p) : p \in paths, t \in {"Added", "Modified", "Deleted"}}
                  \cup {FileChange(pr[1], "Renamed", pr[2]) :
                            pr \in {x \in paths \X paths : x[1] # x[2]}}
        below == {[stem |-> "b", ext |-> e] : e \in {"ts", "tsx"}}
                   \cup {[dir |-> "b", stem |-> "index", ext |-> e] : e \in {"ts", "tsx"}}
        decl == {Decl("Function", n, sl, el, "") :
                    n \in {"f", "g"}, sl \in 0..MaxLine, el \in 0..MaxLine}
        ordered(ds) ==
            \A i, j \in DOMAIN ds :
                i < j => /\ ds[i].sl <= ds[i].el /\ ds[j].sl <= ds[j].el
                         /\ ds[i].sl <= ds[j].sl
                         /\ ds[j].el <= ds[i].el \/ ds[i].el <= ds[j].sl
    IN [changes |-> UNION {[1..k -> one] : k \in 0..MaxChanges},
        trees |-> [below -> {Absent, 1}],
        specifiers |-> {ImportSpec(r, st) : r \in BOOLEAN, st \in {"b", "c"}},
        contents |-> {Content(TRUE, ds, <<CallSite(l, n, FALSE)>>, <<>>, <<>>) :
                         ds \in {x \in UNION {[1..k -> decl] : k \in 1..MaxDecls} :
                                    ordered(x)},
                         l \in 0..MaxLine, n \in {"f", "g"}},
        sources |->
            LET kinds == {"Function", "Class", "Interface"}
                any == {Decl(k, n, sl, el, "") :
                           k \in kinds, n \in {"f", "g"},
                           sl \in 0..MaxLine, el \in 0..MaxLine}
                flat == {Decl(k, n, 0, 0, "") : k \in kinds, n \in {"f", "g"}}
                clause == {[sub |-> a, sup |-> b] : a, b \in {"f", "g", "h"}}
            IN {Content(TRUE, ds, <<CallSite(l, n, w)>>, <<>>, <<>>) :
                    ds \in {x \in UNION {[1..k -> any] : k \in 1..MaxDecls} :
                               ordered(x) /\ x[1].sl <= x[1].el},
                    l \in 0..MaxLine, n \in {"f", "g"}, w \in BOOLEAN}
               \cup {Content(TRUE, ds, <<>>, <<>>, hs) :
                        ds \in UNION {[1..k -> flat] : k \in 0..MaxDecls},
                        hs \in UNION {[1..k -> clause] : k \in 1..MaxClauses}},
        lines |->
            LET status == {<<>>, <<"A">>, <<"M">>, <<"D">>, <<"R", "1", "0", "0">>,
                           <<"R">>, <<"C", "7", "5">>, <<"T">>}
                name == {[stem |-> "a", ext |-> "ts"], [stem |-> "b", ext |-> "ts"]}
                line == {<<st>> : st \in status}
                           \cup {<<st, p>> : st \in status, p \in name}
                           \cup {<<st, p, q>> : st \in status, p \in name, q \in name}
            IN UNION {[1..k -> line] : k \in 0..MaxChanges}]

InitFn ==
    /\ isRepo = TRUE
    /\ InitIngest
    /\ built = <<>>
    /\ text = NoText
    /\ \/ \E chs \in ArgSets.changes : call = [NoCall EXCEPT !.fn = "partition", !.in = chs]
       \/ \E t \in ArgSets.trees, sp \in ArgSets.specifiers :
              call = [NoCall EXCEPT !.fn = "resolve", !.in = [tree |-> t, spec |-> sp]]
       \/ \E c \in ArgSets.contents : call = [NoCall EXCEPT !.fn = "calls", !.in = c]
       \/ \E c \in ArgSets.sources : call = [NoCall EXCEPT !.fn = "parse", !.in = c]
       \/ \E ls \in ArgSets.lines : call = [NoCall EXCEPT !.fn = "lines", !.in = ls]

\* the loop of get_incremental_changes over file_changes
ApplyPartition ==
    /\ call.fn = "partition" /\ ~call.done
    /\ call' = [call EXCEPT !.out = Partition(call.in, [NoChanges EXCEPT !.some = TRUE]),
                            !.done = TRUE]
    /\ UNCHANGED <<world, store, locals, pc, runs, faults, hist, batches, built, text>>

ApplyResolve ==
    /\ call.fn = "resolve" /\ ~call.done
    /\ call' = [call EXCEPT !.out = resolve_import_path(call.in.tree, call.in.spec),
                            !.done = TRUE]
    /\ UNCHANGED <<world, store, locals, pc, runs, faults, hist, batches, built, text>>

\* extract_calls on the functions of the file, as parse_typescript_file
\* calls it
ApplyCalls ==
    /\ call.fn = "calls" /\ ~call.done
    /\ call' = [call EXCEPT
                   !.out = extract_calls(call.in, extract_functions(Root \o "/a.ts", call.in)),
                   !.done = TRUE]
    /\ UNCHANGED <<world, store, locals, pc, runs, faults, hist, batches, built, text>>

\* parse_typescript_file on a file of an empty project directory
ApplyParse ==
    /\ call.fn = "parse" /\ ~call.done
    /\ call' = [call EXCEPT
                   !.out = parse_typescript_file(Root \o "/a.ts", call.in,
                                                 [p \in {} |-> Absent]),
                   !.done = TRUE]
    /\ UNCHANGED <<world, store, locals, pc, runs, faults, hist, batches, built, text>>

\* the loop of get_file_changes over the lines of the diff output
ApplyLines ==
    /\ call.fn = "lines" /\ ~call.done
    /\ call' = [call EXCEPT !.out = Flatten(MapSeq(call.in, ParseLine)),
                            !.done = TRUE]
    /\ UNCHANGED <<world, store, locals, pc, runs, faults, hist, batches, built, text>>

NextFn ==
    \/ ApplyPartition
    \/ ApplyResolve
    \/ ApplyCalls
    \/ ApplyParse
    \/ ApplyLines

SpecFn == InitFn /\ [][NextFn]_vars

(***************************************************************************)
(* Vocabulary of the properties.                                           *)
(***************************************************************************)
NodeTypes == {"Repository", "Language", "File"} \cup EntityTypes
EdgeTypes == {"Contains", "Calls", "Imports", "Implements", "Uses"}

HasFileNode(ns, p) == HasNode(ns, FileId(display(p)))
NodesOfFile(ns, p) == {n \in ns : n.file = display(p)}
EntitiesOf(ns, p) == {n \in NodesOfFile(ns, p) : n.node_type \in EntityTypes}
NodeCount(ns, t) == Cardinality({n \in ns : n.node_type = t})
EdgeCount(es, t) ==
    LET of_type == {e \in DOMAIN es : e.edge_type = t}
    IN BagCardinality([e \in of_type |-> es[e]])

\* the Calls/Implements rows between two entities of p
IntraEdges(ns, es, p) ==
    {e \in DOMAIN es :
        /\ e.edge_type \in {"Calls", "Implements"}
        /\ \E n \in EntitiesOf(ns, p) : n.id = e.from_id
        /\ \E n \in EntitiesOf(ns, p) : n.id = e.to_id}

\* what the parser extracts from p in a tree
ParsedAt(tree, p) == parse_typescript_file(display(p), Contents[tree[p]], tree)
TsFilesOf(tree) == {p \in AllPaths : tree[p] # Absent /\ p.ext \in DiscoverExts}
Readable(tree, p) == tree[p] # Absent /\ Contents[tree[p]].readable

\* the source of a imports b: a relative specifier of a resolves to b
SourceImports(tree, a, b) ==
    /\ tree[a] # Absent
    /\ \E i \in DOMAIN Contents[tree[a]].imports :
           resolve_import_path(tree, Contents[tree[a]].imports[i]) = display(b)
ImportsEdge(a, b) == Edge(FileId(display(a)), FileId(display(b)), "Imports")

\* the changes between the revision the run started from and HEAD
RunDiff ==
    IF hist.commit0 \in KnownRevs
    THEN Range(Flatten(MapSeq(NameStatus(TreeOf(hist.commit0), disk), ParseLine)))
    ELSE {}
DiffDeleted == {ch.path : ch \in {x \in RunDiff : x.change_type = "Deleted"}}
DiffRenamedOld == {ch.old_path : ch \in {x \in RunDiff : x.change_type = "Renamed"}}
DiffTouched == {ch.path : ch \in RunDiff} \cup DiffRenamedOld
PreviouslyIngested(p) == p.ext \in ts_extensions /\ HasFileNode(hist.nodes0, p)

\* the run asked for an incremental selection
TryIncremental == options.incremental /\ ~options.clean

\* the run's calls that failed in a step, and the three calls of the
\* selection (metadata read, current revision, diff) among them
FaultsIn(step) == {f \in hist.fault : f.step = step}
SelectionFault == \E f \in FaultsIn("select") : f.at \in 1..3

\* the incremental selection of the run cannot be completed
CannotSelect ==
    \/ ~is_git_repo
    \/ hist.commit0 \notin KnownRevs
    \/ SelectionFault

\* the discovered files that can be read and parsed
Parseable == {p \in find_typescript_files : Readable(disk, p)}
NoFailedBatch == \A p \in AllPaths : batches[p].outcome # "failed"

\* an incremental run over a diff that finished without any failure
CleanIncremental ==
    /\ pc = "done"
    /\ hist.mode = "incremental"
    /\ ~had_errors
    /\ faults = 0

(***************************************************************************)
(* Properties.                                                             *)
(***************************************************************************)

\* C1, as stated: when a run on a repository has returned, last_commit is
\* HEAD if no write of the per-file loop failed (had_errors false), and has
\* the value it had before the run if one failed (had_errors true).
C1_AsStated ==
    (pc = "done" /\ is_git_repo) =>
        IF had_errors
        THEN meta.last_commit = hist.commit0
        ELSE meta.last_commit = RevOf(HeadIdx)

\* C1, amended: when a run on a repository has returned Ok, last_commit has
\* the value it had before the run if had_errors is true, or if reading HEAD
\* or writing the metadata row failed (both failures are only logged); it is
\* HEAD if had_errors is false and the row was written.  A run that returned
\* Err left last_commit as it was.
C1_LastCommit ==
    /\ (pc = "done" /\ is_git_repo) =>
           /\ had_errors => (~hist.stored /\ meta.last_commit = hist.commit0)
           /\ (~had_errors /\ hist.stored) => meta.last_commit = RevOf(HeadIdx)
           /\ ~hist.stored => meta.last_commit = hist.commit0
    /\ pc = "failed" => meta.last_commit = hist.commit0

\* C1, witnesses: a run moved last_commit from an older revision to HEAD; a
\* run with had_errors left an earlier revision in place.
C1_Witness ==
    /\ pc = "done" /\ ~had_errors /\ hist.stored
    /\ hist.commit0 \in KnownRevs
    /\ hist.commit0 # RevOf(HeadIdx)
    /\ meta.last_commit = RevOf(HeadIdx)

\* C2: whenever a run has returned and last_commit holds revision R, every
\* TypeScript file of R has a File node and exactly the entities the parser
\* extracts from its content at R.
C2_Represents ==
    (Returned /\ meta.last_commit \in KnownRevs) =>
        LET tree == TreeOf(meta.last_commit)
        IN \A p \in TsFilesOf(tree) :
               /\ HasFileNode(nodes, p)
               /\ EntitiesOf(nodes, p) = Range(ParsedAt(tree, p).nodes)

\* C3: after a run in which file F was parsed and every write of its batch
\* succeeded, the entity nodes of F and the Calls/Implements edges between
\* them are exactly those parsed from F's current content.
C3_ExactEntities ==
    pc = "done" =>
        \A p \in AllPaths :
            batches[p].outcome = "ok" =>
                /\ EntitiesOf(nodes, p) = Range(ParsedAt(disk, p).nodes)
                /\ IntraEdges(nodes, edges, p) = Range(ParsedAt(disk, p).edges)

\* C4: in every reachable store state, a successful
\* delete_file_and_symbols(F.id) leaves no node with file = F and deletes no
\* node of another file.
C4_DeleteFile ==
    \A p \in AllPaths :
        LET r == delete_file_and_symbols(Ctx(0), FileId(display(p)))
        IN r.ok =>
               /\ NodesOfFile(r.nodes, p) = {}
               /\ \A n \in nodes : n.file # display(p) => n \in r.nodes

\* C5: a second run without clean, right after a run without errors and with
\* no source change in between, leaves every node count and edge count by
\* kind, and the node ids of every file, as they were (stated for projects
\* whose TypeScript files can all be read, graphs whose File nodes all name
\* a TypeScript file of the project, and runs without store failures).
C5_Idempotent ==
    (/\ pc = "done" /\ hist.rerun /\ ~options.clean /\ ~had_errors /\ faults = 0
     /\ \A p \in TsFilesOf(disk) : Readable(disk, p)
     /\ \A n \in hist.nodes0 :
            n.node_type = "File" => \E p \in TsFilesOf(disk) : n.name = display(p)) =>
        /\ \A t \in NodeTypes : NodeCount(nodes, t) = NodeCount(hist.nodes0, t)
        /\ \A t \in EdgeTypes : EdgeCount(edges, t) = EdgeCount(hist.edges0, t)
        /\ \A p \in AllPaths :
               {n.id : n \in NodesOfFile(nodes, p)}
                   = {n.id : n \in NodesOfFile(hist.nodes0, p)}

\* C6: after any sequence of successful runs, between two readable files
\* that are on disk and have File nodes there is an Imports edge A -> B iff
\* the source of A has an import whose relative specifier resolves to B.
C6_ImportsIff ==
    (pc = "done" /\ hist.all_ok /\ faults = 0) =>
        \A a, b \in AllPaths :
            (/\ Readable(disk, a) /\ Readable(disk, b)
             /\ HasFileNode(nodes, a) /\ HasFileNode(nodes, b)) =>
                (ImportsEdge(a, b) \in DOMAIN edges <=> SourceImports(disk, a, b))

\* C7: an incremental run whose diff consists of modified TypeScript files
\* with unchanged import statements leaves the number of Imports edges as
\* it was before the run.
C7_ImportsPreserved ==
    (/\ CleanIncremental
     /\ RunDiff # {}
     /\ \A ch \in RunDiff :
            /\ ch.change_type = "Modified"
            /\ ch.path.ext \in DiscoverExts
            /\ Readable(disk, ch.path)
            /\ Readable(TreeOf(hist.commit0), ch.path)
            /\ Contents[disk[ch.path]].imports
                   = Contents[TreeOf(hist.commit0)[ch.path]].imports) =>
        EdgeCount(edges, "Imports") = EdgeCount(hist.edges0, "Imports")

\* C8: when a run has returned, every Function, Class, Interface or Import
\* node whose file is the name of an existing File node is the target of a
\* Contains edge from that File node.
C8_Contains ==
    pc \in {"done", "failed"} =>
        \A n \in nodes, f \in nodes :
            (/\ n.node_type \in EntityTypes
             /\ f.node_type = "File"
             /\ f.name = n.file) =>
                Edge(f.id, n.id, "Contains") \in DOMAIN edges

\* C9: if a write of file F's batch failed, no node that batch inserted is
\* left in the graph.
C9_NoPartialBatch ==
    \A p \in AllPaths :
        batches[p].outcome = "failed" =>
            \A id \in batches[p].written : ~HasNode(nodes, id)

\* C10: after an incremental run over a diff, every previously ingested
\* TypeScript path the diff reports as Deleted or as the old path of a rename
\* has no node left; when the diff holds deletions and renames only, the File
\* count dropped by one per deleted file; the entities of the files the diff
\* does not name are preserved.
C10_DeletedAndRenamed ==
    CleanIncremental =>
        /\ \A p \in DiffDeleted \cup DiffRenamedOld :
               PreviouslyIngested(p) => NodesOfFile(nodes, p) = {}
        /\ (\A ch \in RunDiff : ch.change_type \in {"Deleted", "Renamed"}) =>
               NodeCount(nodes, "File") =
                   NodeCount(hist.nodes0, "File")
                       - Cardinality({p \in DiffDeleted : PreviouslyIngested(p)})
        /\ \A n \in hist.nodes0 :
               (/\ n.node_type \in EntityTypes
                /\ \A p \in DiffTouched : n.file # display(p)) =>
                   n \in nodes

\* the three tables of the schema exist
SchemaComplete == {"Node", "Metadata", "Edge"} \subseteq tables

\* a run that returned Err did so in the open or the synthetic-node step: a
\* store call of that step failed, or an earlier run left the schema half
\* created
EarlyAbort ==
    \/ FaultsIn("open") \cup FaultsIn("synth") # {}
    \/ ~SchemaComplete

\* C11: in a run that asked for an incremental selection which cannot be
\* completed (no repository, last_commit absent or naming no revision, or a
\* failed metadata read, revision read or diff), the selection step returns
\* no error and deletes nothing, the run takes every discovered file, and a
\* run that returns reports as files_processed the discovered files that
\* parse (less those whose File node could not be written).
C11_FallbackToFull ==
    (TryIncremental /\ CannotSelect) =>
        /\ pc = "failed" => EarlyAbort
        /\ pc \in {"synth", "parse", "persist", "finish", "done"} =>
               /\ hist.mode = "full"
               /\ to_delete = <<>>
               /\ files \in WalkOrder(find_typescript_files)
        /\ pc = "synth" => (nodes = hist.nodes0 /\ edges = hist.edges0)
        /\ pc = "done" =>
               /\ stats.files_processed =
                      Cardinality({p \in Parseable :
                                      FileId(display(p)) \in batches[p].written})
               /\ NoFailedBatch =>
                      stats.files_processed = Cardinality(Parseable)

\* C11, witness: the run of test_fallback_on_unreachable_commit, an
\* incremental run over a last_commit of zeros that processed a file.
C11_Witness ==
    /\ pc = "done" /\ TryIncremental /\ is_git_repo
    /\ hist.commit0 = ZeroRev
    /\ stats.files_processed >= 1
    /\ hist.nodes0 # {}

\* the File and entity nodes, and the edges of the four kinds ingest writes
GraphNodes(ns) == {n \in ns : n.node_type \in {"File"} \cup EntityTypes}
GraphEdges(es) ==
    LET kept == {e \in DOMAIN es :
                    e.edge_type \in {"Contains", "Calls", "Implements", "Imports"}}
    IN [e \in kept |-> es[e]]

\* C12: an incremental run without clean, started while HEAD is the stored
\* last_commit and whose selection calls all succeed, selects no file to
\* process or delete, returns files_processed = 0 and symbols_created = 0,
\* and leaves every File node, entity node and Contains, Calls, Implements
\* and Imports edge as it was.
C12_NoChanges ==
    (/\ pc = "done" /\ TryIncremental /\ is_git_repo
     /\ hist.commit0 = RevOf(HeadIdx)
     /\ ~SelectionFault) =>
        /\ files = <<>> /\ to_delete = <<>>
        /\ stats.files_processed = 0 /\ stats.symbols_created = 0
        /\ GraphNodes(nodes) = GraphNodes(hist.nodes0)
        /\ GraphEdges(edges) = GraphEdges(hist.edges0)

\* C12, witness: such a run returned over a graph that holds File nodes,
\* entities and edges.
C12_Witness ==
    /\ pc = "done" /\ TryIncremental /\ is_git_repo
    /\ hist.commit0 = RevOf(HeadIdx)
    /\ hist.mode = "incremental"
    /\ \E n \in hist.nodes0 : n.node_type = "File"
    /\ \E n \in hist.nodes0 : n.node_type \in EntityTypes
    /\ \E e \in DOMAIN hist.edges0 : e.edge_type = "Imports"

\* C13: when a write of file F's batch fails, had_errors is set, the failed
\* write is the last store call of F's batch, the loop goes on with the next
\* parsed file, and the run returns Ok.
C13_StopsBatch ==
    /\ \A p \in AllPaths :
           batches[p].outcome = "failed" =>
               /\ had_errors
               /\ batches[p].calls = batches[p].failed
    /\ pc \in {"finish", "done"} =>
           \A i \in DOMAIN files :
               read_file(files[i]) => batches[files[i]].outcome # "none"
    /\ pc = "failed" => FaultsIn("persist") = {}

\* the selected files whose read or parse fails
Skipped == {p \in Range(files) : ~Readable(disk, p)}
ContainsOf(es, p) ==
    {e \in DOMAIN es : e.edge_type = "Contains" /\ e.from_id = FileId(display(p))}

\* C14: in a run whose file set holds a file that cannot be read or parsed,
\* no batch is written for that file and, without clean, its nodes and
\* Contains edges stay as they were; every other selected file is parsed and
\* persisted; the run does not return Err unless a store call of the open or
\* synthetic-node step failed (or an earlier run left the schema half
\* created); had_errors is set only by a failed batch; and
\* on a repository a run without had_errors whose final calls succeed stores
\* HEAD as last_commit.
C14_SkipUnreadable ==
    Skipped # {} =>
        /\ pc \in {"persist", "finish", "done"} =>
               \A p \in Skipped :
                   /\ batches[p].outcome = "none"
                   /\ ~options.clean =>
                          /\ OwnNodes(nodes, p) = OwnNodes(hist.nodes0, p)
                          /\ ContainsOf(edges, p) = ContainsOf(hist.edges0, p)
        /\ pc \in {"finish", "done"} =>
               \A q \in Range(files) \ Skipped : batches[q].outcome # "none"
        /\ pc = "failed" => EarlyAbort
        /\ had_errors => ~NoFailedBatch
        /\ (pc = "done" /\ is_git_repo /\ ~had_errors /\ FaultsIn("finish") = {}) =>
               meta.last_commit = RevOf(HeadIdx)

\* C14, witness: a run skipped a file it had ingested before, persisted
\* another file, and moved last_commit to HEAD.
C14_Witness ==
    /\ pc = "done" /\ ~options.clean /\ ~had_errors
    /\ \E p \in Skipped : OwnNodes(hist.nodes0, p) # {}
    /\ \E q \in Range(files) \ Skipped : batches[q].outcome = "ok"
    /\ hist.commit0 # RevOf(HeadIdx)
    /\ meta.last_commit = RevOf(HeadIdx)

\* the import pairs of the run whose insert did not fail for an outside reason
OtherPairs == {i \in DOMAIN all_import_edges : \A f \in FaultsIn("imports") : f.at # i}
PairEdge(pair) == Edge(FileId(pair[1]), FileId(pair[2]), "Imports")

\* C15: in a run where the insert of a cross-file edge failed, the run does
\* not return Err, had_errors is set only by a failed batch of the per-file
\* loop, every other import pair whose two File nodes exist has its Imports
\* edge, and on a repository a run without had_errors whose final calls
\* succeed stores HEAD as last_commit.
C15_CrossFileNonFatal ==
    FaultsIn("imports") # {} =>
        /\ pc # "failed"
        /\ had_errors => ~NoFailedBatch
        /\ pc \in {"finish", "done"} =>
               \A i \in OtherPairs :
                   (/\ HasNode(nodes, FileId(all_import_edges[i][1]))
                    /\ HasNode(nodes, FileId(all_import_edges[i][2]))) =>
                       PairEdge(all_import_edges[i]) \in DOMAIN edges
        /\ (pc = "done" /\ is_git_repo /\ ~had_errors /\ FaultsIn("finish") = {}) =>
               meta.last_commit = RevOf(HeadIdx)

\* C15, witness: the first of two Imports inserts failed, the second edge
\* was written, and the run moved last_commit to HEAD.
C15_Witness ==
    /\ pc = "done" /\ ~had_errors
    /\ \E f \in FaultsIn("imports") : f.at = 1
    /\ \E i \in OtherPairs :
           /\ i > 1
           /\ PairEdge(all_import_edges[i]) \in DOMAIN edges
           /\ PairEdge(all_import_edges[i]) # PairEdge(all_import_edges[1])
    /\ PairEdge(all_import_edges[1]) \notin DOMAIN edges
    /\ hist.commit0 # RevOf(HeadIdx)
    /\ meta.last_commit = RevOf(HeadIdx)

\* a call the run aborts on has failed: the open of the store (call 1 of the
\* open step), a statement of the schema creation or the clear (the calls
\* after the sentinel query, which is call 2), or a delete or insert of a
\* synthetic node
AbortingFault ==
    \/ \E f \in FaultsIn("open") : f.at # 2
    \/ FaultsIn("synth") # {}

\* C16: when opening the store, creating its schema, clearing it, or
\* deleting or inserting the Repository or Language node fails, the run
\* returns Err at once: no batch of the per-file loop is written, no File or
\* entity node or edge is added, and last_commit keeps its value.
C16_AbortsEarly ==
    AbortingFault =>
        /\ pc \in {"failed", "idle"}
        /\ pc = "failed" =>
               /\ batches = NoBatches
               /\ GraphNodes(nodes) \subseteq GraphNodes(hist.nodes0)
               /\ DOMAIN GraphEdges(edges) \subseteq DOMAIN GraphEdges(hist.edges0)
               /\ meta.last_commit = hist.commit0

\* C16, witness: a run over an ingested repository whose HEAD has moved
\* failed on a synthetic node and returned Err.
C16_Witness ==
    /\ pc = "failed"
    /\ FaultsIn("synth") # {}
    /\ \E n \in hist.nodes0 : n.node_type = "File"
    /\ hist.commit0 \in KnownRevs
    /\ hist.commit0 # RevOf(HeadIdx)
    /\ find_typescript_files # {}

\* the read of the current revision failed in the selection of a run on a
\* repository with a stored last_commit (the second call of the selection)
ProbeFault ==
    /\ TryIncremental /\ is_git_repo
    /\ hist.commit0 # NoValue
    /\ \E f \in FaultsIn("select") : f.at = 2

\* C17, as stated: when the read of the current revision fails in the
\* selection of an incremental run on a repository with a stored
\* last_commit, the run returns Err.
C17_AsStated == ProbeFault => pc \in {"failed", "idle"}

\* C17, amended: such a failure does not end the run: the selection falls
\* back to the full discovered file set, deletes nothing, and the run goes
\* on to persist the files (it returns Err only if the synthetic-node step
\* that follows fails).
C17_ProbeDegrades ==
    ProbeFault =>
        /\ pc = "failed" => (FaultsIn("synth") # {} \/ ~SchemaComplete)
        /\ pc \in {"synth", "parse", "persist", "finish", "done"} =>
               /\ hist.mode = "full"
               /\ Range(files) = find_typescript_files
               /\ to_delete = <<>>
        /\ pc \in {"finish", "done"} =>
               \A p \in Parseable : batches[p].outcome # "none"

\* C17, witness: a run whose revision read failed returned Ok after it had
\* processed a file of a repository ingested before.
C17_Witness ==
    /\ pc = "done" /\ ProbeFault
    /\ hist.commit0 \in KnownRevs
    /\ stats.files_processed >= 1
    /\ \E n \in hist.nodes0 : n.node_type = "File"

\* C18: when the run before was killed before it wrote last_commit, a run
\* that returns Ok without any failure has re-processed every file the
\* killed run had changed and that is still a readable TypeScript file, and
\* the graph holds the File node and exactly the parsed entities of each.
C18_RedoAfterKill ==
    (pc = "done" /\ hist.after_kill /\ hist.fault = {} /\ ~had_errors) =>
        \A p \in hist.hurt :
            (p \in TsFilesOf(disk) /\ Readable(disk, p)) =>
                /\ batches[p].outcome = "ok"
                /\ HasFileNode(nodes, p)
                /\ EntitiesOf(nodes, p) = Range(ParsedAt(disk, p).nodes)

\* the identity function applied to the current fields of a Node
IdOf(n) == generate_id(n.node_type, n.name, n.file, n.start_line, n.end_line)
SameTuple(m, n) ==
    /\ m.node_type = n.node_type /\ m.name = n.name /\ m.file = n.file
    /\ m.start_line = n.start_line /\ m.end_line = n.end_line

\* C19: every Node built by a chain of Node::new, with_lines, with_body and
\* with_meta has as id the identity function of its current node_type,
\* name, file, start_line and end_line; with_body and with_meta keep the id,
\* with_lines gives the id of the new range, which differs from the id of
\* every other range; two Nodes with equal tuples have equal ids.
C19_IdOfTuple ==
    \A i \in DOMAIN built :
        /\ built[i].id = IdOf(built[i])
        /\ \A body \in BuilderBodies : with_body(built[i], body).id = built[i].id
        /\ \A kv \in BuilderMeta : with_meta(built[i], kv[1], kv[2]).id = built[i].id
        /\ \A sl, el \in BuilderLines :
               /\ with_lines(built[i], sl, el).id = IdOf(with_lines(built[i], sl, el))
               /\ <<sl, el>> # <<built[i].start_line, built[i].end_line>> =>
                      with_lines(built[i], sl, el).id # built[i].id
        /\ \A j \in DOMAIN built :
               SameTuple(built[i], built[j]) => built[i].id = built[j].id

\* C19, witness: two Nodes of the same kind, name and file, built by
\* different chains, one moved to other lines: their ids differ, and differ
\* from the id Node::new gave them.
C19_Witness ==
    /\ Len(built) = 2
    /\ built[1].node_type = built[2].node_type
    /\ built[1].name = built[2].name
    /\ built[1].file = built[2].file
    /\ built[1].start_line = 1 /\ built[1].end_line = 2
    /\ built[2].start_line = 256 /\ built[2].end_line = 256
    /\ built[1].body # built[2].body
    /\ built[1].meta # {} /\ built[2].meta = {}
    /\ built[1].id # built[2].id
    /\ built[1].id # Node_new(built[1].node_type, built[1].name, built[1].file).id

\* C20: for every string s over backslash, single quote, double quote,
\* newline, carriage return, tab and ordinary characters, the text
\* escape_kuzu_string(s) has no raw newline, carriage return or tab and no
\* quote or backslash outside a two-character backslash escape, and reading
\* its escapes gives s back; so the query is accepted and the store keeps s.
C20_EscapeRoundTrip ==
    /\ text.step \in {"query", "stored", "rejected"} =>
           /\ IsLiteral(text.literal)
           /\ Decode(text.literal) = text.s
    /\ text.step # "rejected"
    /\ text.step = "stored" => text.kept = text.s

\* C20, witness: a string with a backslash before an n, a quote and a raw
\* newline went through the query and was stored.
C20_Witness ==
    /\ text.step = "stored"
    /\ text.s = <<Special.backslash, "n", Special.single, Special.newline>>
    /\ text.literal =
           <<Special.backslash, Special.backslash, "n",
             Special.backslash, Special.single, Special.backslash, "n">>
    /\ text.kept = text.s

\* the place of a call in the order of the writes of a run: 1 the inserts
\* of the synthetic nodes, 2 the inserts of a file's batch, 3 the Imports
\* inserts, 5 the last_commit write (4 would be the cross-file Calls
\* inserts, of which resolve_cross_file_calls yields none); 0 for the reads,
\* the deletes and the schema statements
Rank(entry) ==
    IF entry.op = "insert_node"
    THEN (IF entry.what \in {"Repository", "Language"} THEN 1 ELSE 2)
    ELSE IF entry.op = "insert_edge"
    THEN (IF entry.what = "Imports" THEN 3 ELSE 2)
    ELSE IF entry.op = "set_metadata" /\ entry.what = "last_commit" THEN 5
    ELSE 0
Positions(rank) == {i \in DOMAIN hist.log : Rank(hist.log[i]) = rank}
SynthInsert(kind) ==
    {i \in DOMAIN hist.log : hist.log[i] = [op |-> "insert_node", what |-> kind]}

\* C21: in the calls of a run, both synthetic nodes are inserted before the
\* first write of a file's batch, every Imports insert comes after every
\* node and edge insert of every file's batch and is followed by no delete,
\* and a write of last_commit is the last call of the run.
C21_WriteOrder ==
    /\ \A j \in Positions(2) :
           /\ \E i \in SynthInsert("Repository") : i < j
           /\ \E i \in SynthInsert("Language") : i < j
           /\ \A i \in Positions(1) : i < j
    /\ \A j \in Positions(3) :
           /\ \A i \in Positions(1) \cup Positions(2) : i < j
           /\ \A k \in DOMAIN hist.log :
                  (k > j /\ Rank(hist.log[k]) = 0) =>
                      hist.log[k].op \in {"rev-parse", "get_metadata"}
    /\ \A j \in Positions(5) : j = Len(hist.log)

\* C21, witness: a run that wrote both synthetic nodes, the batches of two
\* files, an Imports edge and last_commit has returned.
C21_Witness ==
    /\ pc = "done"
    /\ SynthInsert("Repository") # {} /\ SynthInsert("Language") # {}
    /\ Cardinality(SynthInsert("File")) = 2
    /\ Positions(3) # {}
    /\ Positions(5) = {Len(hist.log)}
    /\ \E i \in DOMAIN hist.log : hist.log[i].op = "delete" /\ i < Len(hist.log)


\* the calls of the log that write rows of the graph or last_commit
RunWrites ==
    {i \in DOMAIN hist.log :
        \/ hist.log[i].op \in {"insert_node", "insert_edge", "delete", "clear"}
        \/ hist.log[i] = [op |-> "set_metadata", what |-> "last_commit"]}

\* C22, as stated: every write of a run is made after the parse phase has
\* joined, so a run that has not yet joined has written nothing.
C22_AsStated == pc \in {"select", "synth", "parse"} => RunWrites = {}

\* C22: no step changes the store while a parse worker is running or
\* between the start of the parse phase and its join; the steps of a worker
\* leave the store alone and what a worker returns is a function of its
\* file; once the run is past the join no worker is running, and the only
\* writes made before the join are those of the steps before the parse
\* phase (clear, the incremental deletes, the synthetic nodes).
C22_WritesApart ==
    [][/\ store' # store =>
              (pc # "parse" /\ workers.running = {} /\ workers'.running = {})
       /\ (pc = "parse" /\ pc' = "parse") => UNCHANGED <<store, hist>>
       /\ \A j \in DOMAIN workers'.done :
              workers'.done[j].out = parse_one(files[workers'.done[j].at])
       /\ pc' \in {"persist", "finish", "done"} => workers'.running = {}
       /\ pc' = "parse" => \A i \in DOMAIN hist'.log : Rank(hist'.log[i]) \in {0, 1}
      ]_vars

\* C22, witness: after the synthetic nodes were written, two workers are in
\* their closures at the same time.
C22_Witness ==
    /\ pc = "parse"
    /\ Cardinality(workers.running) = 2
    /\ SynthInsert("Repository") # {} /\ SynthInsert("Language") # {}


\* the loop over parsed_files and the loop over the import pairs, with no
\* failing call, from the state of context c
RECURSIVE PersistAll(_, _)
PersistAll(c, pfs) ==
    IF pfs = <<>> THEN c
    ELSE PersistAll(PersistOne([c EXCEPT !.ret = "ok"], Head(pfs)), Tail(pfs))
Outcome(fs) ==
    LET pfs == Flatten(MapSeq(fs, parse_one))
        r == InsertImportEdges(PersistAll(Ctx(0), pfs),
                               Flatten(MapSeq(pfs, LAMBDA f : f.import_edges)))
    IN [nodes |-> r.nodes, edges |-> r.edges, stats |-> r.stats]
\* the file list in every order
Reorderings(fs) ==
    {[i \in DOMAIN fs |-> fs[f[i]]] :
        f \in {g \in [DOMAIN fs -> DOMAIN fs] : Range(g) = DOMAIN fs}}

\* C23: when the parse phase joins, the pairs it collected are those of the
\* file list whatever the size of the pool and the order in which the
\* workers returned, and persisting them gives the same nodes, edges and
\* stats as persisting the files of any other order of the list would, from
\* the same store.
C23_OrderFree ==
    (pc = "parse" /\ Joined(workers, files)) =>
        LET got == collect(workers, files)
            r == InsertImportEdges(PersistAll(Ctx(0), got),
                                   Flatten(MapSeq(got, LAMBDA f : f.import_edges)))
        IN \A fs \in Reorderings(files) :
               Outcome(fs) = [nodes |-> r.nodes, edges |-> r.edges, stats |-> r.stats]

\* C23, witness: over a store that holds their nodes from an earlier run,
\* two files with an import between them were parsed by two threads and
\* the worker of the second file returned first.
C23_Witness ==
    /\ pc = "parse" /\ Joined(workers, files)
    /\ Len(files) = 2 /\ files[1] # files[2]
    /\ workers.threads = 2
    /\ workers.done[1].at = 2
    /\ Len(collect(workers, files)) = 2
    /\ \E f \in Range(collect(workers, files)) : f.import_edges # <<>>
    /\ \A p \in Range(files) : HasNode(hist.nodes0, FileId(display(p)))


\* the entries of a change list the selection keeps, by their positions
KeptAt(chs) == {i \in DOMAIN chs : chs[i].path.ext \in {"ts", "tsx"}}
KeptOf(chs, types) == {i \in KeptAt(chs) : chs[i].change_type \in types}

\* C24: the partition of a change list puts in files_to_process the paths
\* of the kept Added, Modified and Renamed entries and nothing else, in
\* files_to_delete the paths of the kept Deleted entries and the old paths
\* of the kept Renamed entries and nothing else, one element for each such
\* entry, where the kept entries are those whose path has the extension ts
\* or tsx.
C24_Partition ==
    (call.fn = "partition" /\ call.done) =>
        LET chs == call.in
            process == KeptOf(chs, {"Added", "Modified", "Renamed"})
            delete == KeptOf(chs, {"Deleted", "Renamed"})
        IN /\ Range(call.out.files_to_process) = {chs[i].path : i \in process}
           /\ Range(call.out.files_to_delete) =
                  {chs[i].path : i \in KeptOf(chs, {"Deleted"})}
                      \cup {chs[i].old_path : i \in KeptOf(chs, {"Renamed"})}
           /\ Len(call.out.files_to_process) = Cardinality(process)
           /\ Len(call.out.files_to_delete) = Cardinality(delete)

\* C24, witness: a list with a kept rename and a dropped entry has been
\* partitioned.
C24_Witness ==
    /\ call.fn = "partition" /\ call.done
    /\ KeptOf(call.in, {"Renamed"}) # {}
    /\ KeptAt(call.in) # DOMAIN call.in
    /\ call.out.files_to_delete # <<>>


\* the calls of the log with an operation of ops
LogOps(ops) == {i \in DOMAIN hist.log : hist.log[i].op \in ops}
\* the calls Database::new makes
OpenOps == {"open", "sentinel", "create", "set_metadata"}

\* C25: a run with clean calls clear right after the store is opened, and
\* when clear has returned the store has no node and no edge; the run then
\* takes the discovered files, whatever its incremental flag, and deletes
\* nothing more before the synthetic nodes.  The stored revision is read,
\* the diff is made and the incremental deletes are attempted by runs with
\* incremental and without clean only, and clear is called by runs with
\* clean only.
C25_CleanFirst ==
    /\ (options.clean /\ pc = "select") =>
           /\ nodes = {} /\ edges = EmptyBag
           /\ LogOps({"clear"}) = {Len(hist.log)}
           /\ \A i \in 1..(Len(hist.log) - 1) : hist.log[i].op \in OpenOps
    /\ (options.clean /\ pc \in {"synth", "parse", "persist", "finish", "done"}) =>
           /\ hist.mode = "full"
           /\ files \in WalkOrder(find_typescript_files)
           /\ to_delete = <<>>
    /\ ~(options.incremental /\ ~options.clean) =>
           /\ LogOps({"get_metadata", "diff"}) = {}
           /\ pc \in {"select", "synth", "parse"} => LogOps({"rev-parse"}) = {}
           /\ pc = "synth" => LogOps({"delete"}) = {}
    /\ (~options.clean /\ pc # "idle") => LogOps({"clear"}) = {}

\* C25, witness: a run with clean and incremental, over a store that held
\* the graph and the revision of an earlier run, has cleared the store and
\* processed the discovered files.
C25_Witness ==
    /\ pc = "done"
    /\ options.clean /\ options.incremental
    /\ isRepo /\ hist.commit0 \in KnownRevs /\ hist.commit0 # RevOf(HeadIdx)
    /\ hist.edges0 # EmptyBag
    /\ stats.files_processed > 0


\* C26: the store never holds two Repository nodes or two Language nodes;
\* it holds exactly one of each once a run is past its synthetic-node step,
\* and whenever every run so far has returned Ok; and in a store with its
\* schema, the delete-then-insert of each synthetic node succeeds unless a
\* store call is made to fail: the insert never meets a row with its id.
C26_OneSynthetic ==
    /\ NodeCount(nodes, "Repository") <= 1 /\ NodeCount(nodes, "Language") <= 1
    /\ (\/ pc \in {"parse", "persist", "finish", "done"}
        \/ (Returned /\ runs > 0 /\ hist.all_ok)) =>
           /\ NodeCount(nodes, "Repository") = 1
           /\ NodeCount(nodes, "Language") = 1
    /\ SchemaComplete =>
           LET r1 == SynthOne(Ctx(0), repository_node)
               r2 == SynthOne(r1, language_node)
           IN /\ r1.ok /\ r2.ok
              /\ {n \in r2.nodes : n.node_type \in {"Repository", "Language"}}
                     = {[m EXCEPT !.meta = {}] : m \in {repository_node, language_node}}

\* C26, witness: the third of three runs that all returned Ok, an
\* incremental run over a store that holds the graph of the runs before
\* it, has returned.
C26_Witness ==
    /\ pc = "done" /\ runs = 3 /\ hist.all_ok
    /\ hist.mode = "incremental"
    /\ NodeCount(hist.nodes0, "Repository") = 1
    /\ NodeCount(hist.nodes0, "File") > 0


\* C27: opening a store that has no table creates, when no call fails, the
\* tables Node, Metadata and Edge and the row schema_version = 1, and no
\* other row; opening a store that has the Node table creates no table and
\* changes no node, edge or metadata row, whichever call of the open fails,
\* and when none fails it makes the store-open call and the sentinel query
\* and nothing else, and returns Ok.  A run that has just opened a store
\* without clean has the nodes, the edges and the last_commit it started
\* from, and schema_version is never anything but absent or 1.
C27_SchemaOnce ==
    /\ tables = {} =>
           LET r == Database_new(Ctx(0))
           IN /\ r.ok
              /\ r.tables = {"Node", "Metadata", "Edge"}
              /\ r.meta = [schema_version |-> "1", last_commit |-> NoValue]
              /\ r.nodes = {} /\ r.edges = EmptyBag
    /\ "Node" \in tables =>
           /\ \A fa \in 0..MaxCallsPerStep :
                  LET r == Database_new(Ctx(fa))
                  IN /\ r.tables = tables /\ r.meta = meta
                     /\ r.nodes = nodes /\ r.edges = edges
           /\ LET r == Database_new([Ctx(0) EXCEPT !.log = <<>>])
              IN r.ok /\ r.log = <<[op |-> "open", what |-> ""],
                                   [op |-> "sentinel", what |-> ""]>>
    /\ (pc = "select" /\ ~options.clean) =>
           /\ nodes = hist.nodes0 /\ edges = hist.edges0
           /\ meta.last_commit = hist.commit0
    /\ meta.schema_version \in {NoValue, "1"}

\* C27, witness: a later run has opened, without clean, the store that an
\* earlier run filled and stamped with its revision, and has made the
\* store-open call and the sentinel query only.
C27_Witness ==
    /\ pc = "select" /\ runs >= 2 /\ ~options.clean
    /\ NodeCount(nodes, "File") > 0 /\ edges # EmptyBag
    /\ meta.last_commit \in KnownRevs /\ meta.schema_version = "1"
    /\ Len(hist.log) = 2


\* the ids of the File nodes of the paths of the project, in the store or
\* not
FileIds == {FileId(display(p)) : p \in AllPaths}
Dangling(ns, es) ==
    {e \in DOMAIN es : ~HasNode(ns, e.from_id) \/ ~HasNode(ns, e.to_id)}

\* C28: both endpoints of every edge of the store are nodes of the store.
\* In a store with its schema, insert_edge adds one edge when both ids are
\* ids of nodes and changes nothing when one of them is not, and what
\* delete_file_and_symbols of any id and clear leave behind has no edge
\* without an endpoint.
C28_NoDangling ==
    /\ Dangling(nodes, edges) = {}
    /\ SchemaComplete =>
           /\ \A a, b \in FileIds :
                  LET e == Edge(a, b, "Imports")
                      r == insert_edge(Ctx(0), e)
                  IN /\ r.ok /\ r.nodes = nodes
                     /\ r.edges = IF HasNode(nodes, a) /\ HasNode(nodes, b)
                                  THEN edges (+) SetToBag({e})
                                  ELSE edges
           /\ \A a \in FileIds \cup {n.id : n \in nodes} :
                  LET r == delete_file_and_symbols(Ctx(0), a)
                  IN r.ok /\ ~HasNode(r.nodes, a) /\ Dangling(r.nodes, r.edges) = {}
           /\ LET r == clear(Ctx(0)) IN r.ok /\ r.nodes = {} /\ r.edges = EmptyBag

\* C28, witness: a run has asked for the Imports edge of an import that
\* resolves to a file without a File node, and the store holds edges.
C28_Witness ==
    /\ pc \in {"finish", "done"}
    /\ \E i \in DOMAIN all_import_edges :
           /\ ~HasNode(nodes, FileId(all_import_edges[i][2]))
           /\ HasNode(nodes, FileId(all_import_edges[i][1]))
    /\ LogOps({"insert_edge"}) # {}
    /\ hist.fault = {}
    /\ edges # EmptyBag


\* the candidates of a specifier, in the order of the claim
Candidates(stem) ==
    <<stem, stem \o ".ts", stem \o ".tsx", stem \o "/index.ts", stem \o "/index.tsx">>

\* C29: resolve_import_path returns no target for a specifier that is not
\* relative; for a relative one it returns the first of the candidates
\* specifier, specifier.ts, specifier.tsx, specifier/index.ts,
\* specifier/index.tsx that exists in the tree, and no target when none
\* does; a specifier that names a directory of the tree resolves to the
\* directory, whether or not the directory holds an index.ts and whether or
\* not specifier.ts exists.
C29_ResolveOrder ==
    (call.fn = "resolve" /\ call.done) =>
        LET spec == call.in.spec
            tree == call.in.tree
            cands == Candidates(spec.stem)
            found == {i \in DOMAIN cands : ExistsOnDisk(tree, cands[i])}
        IN /\ ~spec.relative => call.out = NoTarget
           /\ (spec.relative /\ found = {}) => call.out = NoTarget
           /\ (spec.relative /\ found # {}) =>
                  \E i \in found :
                      /\ \A j \in found : i <= j
                      /\ call.out = Root \o "/" \o cands[i]
           /\ (spec.relative /\ \E p \in DOMAIN tree :
                                   tree[p] # Absent /\ "dir" \in DOMAIN p
                                       /\ p.dir = spec.stem) =>
                  call.out = Root \o "/" \o spec.stem

\* C29, witness: './b' has been resolved in a tree that holds b.ts and
\* b/index.ts, and the answer is the directory b.
C29_Witness ==
    /\ call.fn = "resolve" /\ call.done
    /\ call.in.spec = ImportSpec(TRUE, "b")
    /\ call.in.tree[[stem |-> "b", ext |-> "ts"]] # Absent
    /\ call.in.tree[[dir |-> "b", stem |-> "index", ext |-> "ts"]] # Absent
    /\ call.out = Root \o "/b"


\* the positions in functions of those whose line range contains line
ContainingAt(line, functions) ==
    {i \in DOMAIN functions : /\ functions[i].start_line <= line
                              /\ line <= functions[i].end_line}

\* C30: when the line of a call site lies in the ranges of several
\* functions of the file, one of them nested in all the others (it starts
\* after and ends before each of them), every Calls edge produced for the
\* call site leaves that innermost function.
C30_Innermost ==
    (call.fn = "calls" /\ call.done) =>
        LET functions == extract_functions(Root \o "/a.ts", call.in)
            around == ContainingAt(call.in.calls[1].line, functions)
            inside(i, j) == /\ functions[j].start_line < functions[i].start_line
                            /\ functions[i].end_line < functions[j].end_line
        IN \A i \in around :
               (Cardinality(around) > 1 /\ \A j \in around \ {i} : inside(i, j)) =>
                   \A k \in DOMAIN call.out : call.out[k].from_id = functions[i].id


\* the declarations of the given kind in a file, as records of the source
DeclaredAs(content, kind) == {d \in Range(content.decls) : d.kind = kind}

\* the edges of the given type that a parse produced
EdgesOfType(parsed, edge_type) ==
    SelectSeq(parsed.edges, LAMBDA e : e.edge_type = edge_type)

\* C31: the parser emits one Calls edge for a call site (a call or a `new`
\* expression) if and only if the line range of some function of the file
\* contains the line of the site and a function of the file (for a call) or
\* a class of the file (for `new`) has the name of the callee; the edge
\* leaves a function that contains the site and enters a declaration of that
\* name and kind, and any other call site produces no edge.
C31_CallsIff ==
    (call.fn = "parse" /\ call.done /\ call.in.calls # <<>>) =>
        LET site == call.in.calls[1]
            path == Root \o "/a.ts"
            around == {d \in DeclaredAs(call.in, "Function") :
                          d.sl <= site.line /\ site.line <= d.el}
            named == {d \in DeclaredAs(call.in, IF site.isNew THEN "Class" ELSE "Function") :
                         d.name = site.name}
            calls == EdgesOfType(call.out, "Calls")
        IN IF around # {} /\ named # {}
           THEN /\ Len(calls) = 1
                /\ \E f \in around, t \in named :
                       calls[1] = Edge(DeclNode(path, f).id, DeclNode(path, t).id, "Calls")
           ELSE calls = <<>>

C31_Witness ==
    /\ call.fn = "parse" /\ call.done /\ call.in.calls # <<>>
    /\ call.in.calls[1].isNew
    /\ Len(EdgesOfType(call.out, "Calls")) = 1
    /\ \E d \in DeclaredAs(call.in, "Function") : d.name = call.in.calls[1].name


\* the classes and interfaces of a file with the given name
TypesNamed(content, name) ==
    {d \in DeclaredAs(content, "Class") \cup DeclaredAs(content, "Interface") :
        d.name = name}

\* the heritage clauses of a file whose two ends are declared in it
Resolved(content) ==
    SelectSeq(content.heritage,
              LAMBDA h : TypesNamed(content, h.sub) # {} /\ TypesNamed(content, h.sup) # {})

\* C32: for every heritage clause (class extends, class implements,
\* interface extends) whose subtype and supertype are both declared in the
\* file, the parser emits exactly one Implements edge, directed from the
\* subtype to the supertype; a clause whose supertype is not declared in the
\* file produces no Implements edge.
C32_ImplementsIff ==
    (call.fn = "parse" /\ call.done /\ call.in.heritage # <<>>) =>
        LET path == Root \o "/a.ts"
            implements == EdgesOfType(call.out, "Implements")
            resolved == Resolved(call.in)
        IN /\ Len(implements) = Len(resolved)
           /\ \A k \in DOMAIN resolved :
                  \E s \in TypesNamed(call.in, resolved[k].sub),
                     t \in TypesNamed(call.in, resolved[k].sup) :
                      implements[k] = Edge(DeclNode(path, s).id, DeclNode(path, t).id,
                                           "Implements")

C32_Witness ==
    /\ call.fn = "parse" /\ call.done
    /\ Len(call.in.heritage) = 2
    /\ Len(Resolved(call.in)) = 1
    /\ call.in.heritage[1].sup = "h"
    /\ call.in.heritage[2].sub # call.in.heritage[2].sup
    /\ Len(EdgesOfType(call.out, "Implements")) = 1


\* the change a name-status line stands for, as a sequence of zero or one
\* changes, read off the columns of the line
ChangeOf(parts) ==
    LET first == IF Len(parts) >= 1 /\ parts[1] # <<>> THEN Head(parts[1]) ELSE ""
    IN IF Len(parts) >= 2 /\ first = "A" THEN <<FileChange(parts[2], "Added", parts[2])>>
       ELSE IF Len(parts) >= 2 /\ first = "M"
       THEN <<FileChange(parts[2], "Modified", parts[2])>>
       ELSE IF Len(parts) >= 2 /\ first = "D"
       THEN <<FileChange(parts[2], "Deleted", parts[2])>>
       ELSE IF Len(parts) >= 3 /\ first = "R"
       THEN <<[path |-> parts[3], change_type |-> "Renamed", old_path |-> parts[2]]>>
       ELSE <<>>

\* C33: get_file_changes maps each name-status line by the first character
\* of its status column: A, M and D give an Added, Modified or Deleted change
\* of the second column, R with at least three columns gives Renamed with
\* old_path the second column and path the third, every other line gives no
\* change, and the changes come in the order of the lines.
C33_LineByLine ==
    (call.fn = "lines" /\ call.done) =>
        /\ call.out = Flatten([k \in DOMAIN call.in |-> ChangeOf(call.in[k])])
        /\ \A k \in DOMAIN call.out :
               call.out[k].change_type \in {"Added", "Modified", "Deleted", "Renamed"}

C33_Witness ==
    /\ call.fn = "lines" /\ call.done
    /\ Len(call.in) = 2 /\ Len(call.out) = 2
    /\ call.in[1][1] = <<"R", "1", "0", "0">> /\ call.in[2][1] = <<"D">>
    /\ call.out[1].change_type = "Renamed" /\ call.out[1].path # call.out[1].old_path
    /\ call.out[2].change_type = "Deleted" /\ Len(call.in[2]) = 3


\* C34: clear() removes every node and every edge and leaves the Metadata
\* table as it was: a clean run starts its selection on an empty graph with
\* schema_version and last_commit as the run found them, so a clean run that
\* ends with had_errors, fails or is interrupted, and so does not store a
\* revision, leaves the last_commit of before the run in place.
C34_ClearKeepsMetadata ==
    /\ [][(Returned /\ pc' = "select" /\ options'.clean) =>
              /\ nodes' = {} /\ edges' = EmptyBag
              /\ meta'.last_commit = meta.last_commit
              /\ meta.schema_version # NoValue =>
                     meta'.schema_version = meta.schema_version]_vars
    /\ []((options.clean /\ pc # "idle" /\ ~hist.stored) =>
              meta.last_commit = hist.commit0)

C34_Witness ==
    /\ options.clean /\ pc = "done" /\ had_errors
    /\ hist.nodes0 # {}
    /\ hist.commit0 \in KnownRevs
    /\ meta.last_commit = hist.commit0
    /\ meta.schema_version # NoValue
    /\ Len(commits) = 2


\* the revisions the run gave git as the `to` side of a diff
DiffTo == {hist.log[k].what : k \in {i \in DOMAIN hist.log : hist.log[i].op = "diff"}}

\* C35: the revision an incremental ingest stores in last_commit is the
\* revision it used as the `to` side of the diff that selected its files
\* (the last_commit it found, when the selection saw HEAD there and asked
\* for no diff), also when a commit is made between the HEAD read of the
\* selection and the HEAD read at the end of the run.
C35_StoresDiffTo ==
    (pc = "done" /\ hist.mode = "incremental" /\ hist.stored) =>
        meta.last_commit \in (IF DiffTo = {} THEN {hist.commit0} ELSE DiffTo)


\* the files of the tree whose parse holds no two nodes with the same id,
\* so that their batch can be written to an empty store
Insertable(tree) ==
    \A p \in TsFilesOf(tree) :
        Readable(tree, p) =>
            LET ns == ParsedAt(tree, p).nodes
            IN \A i, j \in DOMAIN ns : ns[i].id = ns[j].id => i = j

\* C36: a run that ended with had_errors is repaired by running again: a
\* later ingest without clean of the same unchanged files, during which no
\* call to the store or to git fails, ends with had_errors = FALSE and
\* stores last_commit; nothing the failed run left behind makes a write of
\* the second run fail.
C36_RerunRepairs ==
    (/\ pc = "done" /\ hist.after_errors /\ ~options.clean /\ hist.fault = {}
     /\ Insertable(disk)) =>
        /\ ~had_errors
        /\ isRepo => hist.stored /\ meta.last_commit = RevOf(HeadIdx)


\* C37: after a successful ingest without clean that took its files from
\* full discovery (not incremental, or incremental fallen back), the File
\* nodes of the graph are those of the TypeScript files on disk: a file an
\* earlier run ingested and that has been removed since has no File node
\* and no entity node left.
C37_FullMatchesDisk ==
    (/\ pc = "done" /\ ~had_errors /\ ~options.clean /\ hist.mode = "full"
     /\ \A p \in TsFilesOf(disk) : Readable(disk, p)) =>
        \A p \in AllPaths :
            /\ HasFileNode(nodes, p) <=> p \in TsFilesOf(disk)
            /\ p \notin TsFilesOf(disk) => NodesOfFile(nodes, p) = {}


\* C38: when the diff of an incremental run reports a rename whose old path
\* is a TypeScript file that was ingested before and whose new path has no
\* TypeScript extension, the run deletes the File node of the old path and
\* all its entities.
C38_RenamedAway ==
    (pc = "done" /\ hist.mode = "incremental" /\ hist.fault = {}) =>
        \A ch \in RunDiff :
            (/\ ch.change_type = "Renamed"
             /\ PreviouslyIngested(ch.old_path)
             /\ ch.path.ext \notin ts_extensions) =>
                NodesOfFile(nodes, ch.old_path) = {}

====
